---- MODULE Spec2Model ----
(***************************************************************************)
(* A model of the protobuf lexer of package parser (lexer.go): the rune    *)
(* reader, the token and line tables it fills, the Lex loop with its       *)
(* literal scanners, and the attribution of comments to terminals.         *)
(* Offsets are 0-based byte offsets as in the Go code; the TLA+ sequences  *)
(* that hold bytes, tokens and lines are 1-based, so the byte at offset p  *)
(* is data[p + 1] and the token with id t is tokens[t + 1].                *)
(***************************************************************************)
EXTENDS Integers, Sequences, FiniteSets, TLC

\* Longest input over the general alphabet.
MaxLen == 3

\* Longest input over the alphabet of string literals.
MaxStringLen == 4

\* Largest number of fragments an input of comments and terminals is made of.
MaxFragments == 4

\* Most hex digits repeated in a hexadecimal literal (a 64-bit value has 16).
MaxHexDigits == 17

\* Most digits repeated in a decimal or octal literal (2^64 has 20 decimal
\* and 22 octal digits).
MaxIntDigits == 22

\* Most characters after the first digit of a number.
MaxNumberLen == 3

\* Most digits repeated after \x, \u or \U (\U takes 8).
MaxEscapeDigits == 9

\* Most characters after the backslash of an octal escape.
MaxOctalLen == 4

\* Most characters after the opening quote of a quoted input.
MaxQuotedLen == 3

\* Most characters after the opening of a block comment.
MaxBlockLen == 4

\* Most digits in the exponent of a float literal.
MaxExpDigits == 4

\* Most escapes and characters between the quotes of a string literal.
MaxEscapes == 4

\* Number of syntax errors the parser reports through Error.
MaxSyntaxErrors == 1

\* Number of Lex calls entered with the rune reader's error already set.
MaxStickyCalls == 1

\* Code points of the characters the lexer tests for.
CH_NUL == 0
CH_TAB == 9
CH_LF == 10
CH_VT == 11
CH_FF == 12
CH_CR == 13
CH_SP == 32
CH_DQUOTE == 34
CH_SQUOTE == 39
CH_STAR == 42
CH_PLUS == 43
CH_MINUS == 45
CH_DOT == 46
CH_SLASH == 47
CH_ZERO == 48
CH_SEVEN == 55
CH_NINE == 57
CH_QUESTION == 63
CH_UPPER_A == 65
CH_UPPER_E == 69
CH_UPPER_F == 70
CH_UPPER_U == 85
CH_UPPER_X == 88
CH_UPPER_Z == 90
CH_BACKSLASH == 92
CH_UNDERSCORE == 95
CH_LOWER_A == 97
CH_LOWER_B == 98
CH_LOWER_E == 101
CH_LOWER_F == 102
CH_LOWER_N == 110
CH_LOWER_R == 114
CH_LOWER_T == 116
CH_LOWER_U == 117
CH_LOWER_V == 118
CH_LOWER_X == 120
CH_LOWER_Z == 122
CH_DEL == 127

\* utf8.RuneError, U+FFFD.
RuneError == 65533

\* "\n\r\t\f\v " of Lex.
Whitespace == {10, 13, 9, 12, 11, 32}

\* ";,.:=-+(){}[]<>" of Lex.
Punctuation == {59, 44, 46, 58, 61, 45, 43, 40, 41, 123, 125, 91, 93, 60, 62}

\* utf8Bom, the byte order mark EF BB BF.
utf8Bom == <<239, 187, 191>>

VARIABLES
    input,       \* the bytes of the io.Reader handed to newLexer
    data,        \* runeReader.data: the contents read (without a leading BOM)
    pos,         \* runeReader.pos
    mark,        \* runeReader.mark
    err,         \* runeReader.err (sticky)
    lines,       \* FileInfo: line-start offsets, begins with 0
    tokens,      \* FileInfo: token table, [offset, length] per token id
    attached,    \* FileInfo: AddComment calls in order, [comment, owner]
    comments,    \* protoLex.comments: pending comment tokens
    prevSym,     \* protoLex.prevSym
    prevOffset,  \* protoLex.prevOffset
    eof,         \* protoLex.eof
    handlerErr,  \* Handler: the sticky ReporterError (TRUE: non-nil)
    diags,       \* Handler: offsets of the diagnostics passed to HandleError
    lval,        \* the protoSymType the last Lex call filled
    ret,         \* what the last Lex call returned
    panicked,    \* TRUE once unreadRune has panicked
    unreads,     \* history: the number of unreadRune calls made so far
    stickyCalls, \* Lex calls entered with the rune reader's error set
    syntaxErrs   \* calls of Error made so far

vars == << input, data, pos, mark, err, lines, tokens, attached, comments, prevSym,
           prevOffset, eof, handlerErr, diags, lval, ret, panicked, unreads,
           stickyCalls, syntaxErrs >>

-----------------------------------------------------------------------------
(* F applied to v: the value v is computed once and named by F's          *)
(* parameter.                                                              *)
With(v, F(_)) == F(v)

-----------------------------------------------------------------------------
(* Errors of the rune reader. *)

NoErr == [kind |-> "nil", offset |-> 0]
EOFErr == [kind |-> "EOF", offset |-> 0]
UTF8Err(p) == [kind |-> "UTF8", offset |-> p]

(* utf8.DecodeRune on data[p:]: the rune and its size, (RuneError, 1) for  *)
(* an invalid or short encoding.                                           *)
ByteAt(p) == data[p + 1]

Cont(b, lo, hi) == b >= lo /\ b <= hi

DecodeRune(p) ==
    LET n == Len(data) - p
        p0 == ByteAt(p)
        sz == IF p0 >= 194 /\ p0 <= 223 THEN 2
              ELSE IF p0 >= 224 /\ p0 <= 239 THEN 3
              ELSE IF p0 >= 240 /\ p0 <= 244 THEN 4
              ELSE 0
        lo == IF p0 = 224 THEN 160 ELSE IF p0 = 240 THEN 144 ELSE 128
        hi == IF p0 = 237 THEN 159 ELSE IF p0 = 244 THEN 143 ELSE 191
        bad == [r |-> RuneError, sz |-> 1]
    IN  IF p0 < 128 THEN [r |-> p0, sz |-> 1]
        ELSE IF sz = 0 \/ n < sz THEN bad
        ELSE IF ~Cont(ByteAt(p + 1), lo, hi) THEN bad
        ELSE IF sz = 2
             THEN [r |-> (p0 - 192) * 64 + (ByteAt(p + 1) - 128), sz |-> 2]
        ELSE IF ~Cont(ByteAt(p + 2), 128, 191) THEN bad
        ELSE IF sz = 3
             THEN [r |-> (p0 - 224) * 4096 + (ByteAt(p + 1) - 128) * 64
                           + (ByteAt(p + 2) - 128), sz |-> 3]
        ELSE IF ~Cont(ByteAt(p + 3), 128, 191) THEN bad
        ELSE [r |-> (p0 - 240) * 262144 + (ByteAt(p + 1) - 128) * 4096
                      + (ByteAt(p + 2) - 128) * 64 + (ByteAt(p + 3) - 128),
              sz |-> 4]

-----------------------------------------------------------------------------
(* The rune reader.  The operators take the lexer state l (a record of the *)
(* variables) and return the state after the call; readRune returns the    *)
(* state together with its three results.                                  *)

\* readRune with the offset after the rune returned in place of its size.
readRuneReturnsOffset(l) ==
    IF l.err.kind # "nil"
    THEN [l |-> l, r |-> 0, sz |-> 0, err |-> l.err]
    ELSE IF l.pos = Len(data)
    THEN [l |-> [l EXCEPT !.err = EOFErr], r |-> 0, sz |-> 0, err |-> EOFErr]
    ELSE With(DecodeRune(l.pos), LAMBDA d :
             IF d.r = RuneError
             THEN [l |-> [l EXCEPT !.err = UTF8Err(l.pos)], r |-> 0, sz |-> 0,
                   err |-> UTF8Err(l.pos)]
             ELSE [l |-> [l EXCEPT !.pos = l.pos + d.sz], r |-> d.r,
                   sz |-> l.pos + d.sz, err |-> NoErr])

\* readRune that does not look at the error it kept and steps over a byte
\* that is no UTF-8.
readRuneNotSticky(l) ==
    IF l.pos = Len(data)
    THEN [l |-> [l EXCEPT !.err = EOFErr], r |-> 0, sz |-> 0, err |-> EOFErr]
    ELSE With(DecodeRune(l.pos), LAMBDA d :
             IF d.r = RuneError
             THEN [l |-> [l EXCEPT !.err = UTF8Err(l.pos), !.pos = l.pos + 1],
                   r |-> 0, sz |-> 0, err |-> UTF8Err(l.pos)]
             ELSE [l |-> [l EXCEPT !.pos = l.pos + d.sz], r |-> d.r,
                   sz |-> d.sz, err |-> NoErr])

readRune(l) ==
    IF l.err.kind # "nil"
    THEN [l |-> l, r |-> 0, sz |-> 0, err |-> l.err]
    ELSE IF l.pos = Len(data)
    THEN [l |-> [l EXCEPT !.err = EOFErr], r |-> 0, sz |-> 0, err |-> EOFErr]
    ELSE With(DecodeRune(l.pos), LAMBDA d :
             IF d.r = RuneError
             THEN [l |-> [l EXCEPT !.err = UTF8Err(l.pos)], r |-> 0, sz |-> 0,
                   err |-> UTF8Err(l.pos)]
             ELSE [l |-> [l EXCEPT !.pos = l.pos + d.sz], r |-> d.r,
                   sz |-> d.sz, err |-> NoErr])

offset(l) == l.pos

unreadRune(l, sz) ==
    LET newPos == l.pos - sz
    IN  IF newPos < l.mark
        THEN [l EXCEPT !.panicked = TRUE, !.unreads = l.unreads + 1]
        ELSE [l EXCEPT !.pos = newPos, !.unreads = l.unreads + 1]

setMark(l) == [l EXCEPT !.mark = l.pos]

getMark(l) == SubSeq(data, l.mark + 1, l.pos)

-----------------------------------------------------------------------------
(* The file info: line table, token table and comment attachments.         *)

AddLine(l, off) == [l EXCEPT !.lines = Append(l.lines, off)]

AddToken(l, off, length) ==
    [l EXCEPT !.tokens = Append(l.tokens, [offset |-> off, length |-> length])]

\* The id AddToken has just returned.
LastToken(l) == Len(l.tokens) - 1

AddComment(l, c, owner) ==
    [l EXCEPT !.attached = Append(l.attached, [comment |-> c, owner |-> owner])]

\* SourcePos(offset).Line: the number of line starts at or before the offset.
LineOf(l, off) == Cardinality({i \in 1..Len(l.lines) : l.lines[i] <= off})

TokenStartLine(l, t) == LineOf(l, l.tokens[t + 1].offset)

\* End() is the position of the last byte of the span.
TokenEndLine(l, t) ==
    LET tk == l.tokens[t + 1]
    IN  LineOf(l, IF tk.length > 0 THEN tk.offset + tk.length - 1 ELSE tk.offset)

RawText(l, t) ==
    SubSeq(data, l.tokens[t + 1].offset + 1,
           l.tokens[t + 1].offset + l.tokens[t + 1].length)

HasPrefix(s, p) == Len(s) >= Len(p) /\ SubSeq(s, 1, Len(p)) = p

-----------------------------------------------------------------------------
(* The diagnostic handler: HandleError records the diagnostic and, unless  *)
(* an error is already sticky, makes the reporter's decision sticky.       *)

HandleError(l, at, stop) ==
    [l EXCEPT !.diags = Append(l.diags, at),
              !.handlerErr = l.handlerErr \/ stop]

ReporterError(l) == l.handlerErr

-----------------------------------------------------------------------------
(* Terminal nodes: the kind, the token, the rune of a rune node and the    *)
(* decoded value (bytes of an identifier or string, limbs of an integer).  *)

NoNode == [kind |-> "nil", tok |-> 0 - 1, rune |-> 0, val |-> << >>]

NewNode(kind, tok, rune, val) ==
    [kind |-> kind, tok |-> tok, rune |-> rune, val |-> val]

\* newToken with the offset taken at the cursor instead of the mark.
newTokenAtCursor(l) == AddToken(l, l.pos, l.pos - l.mark)

newToken(l) == AddToken(l, l.mark, l.pos - l.mark)

maybeNewLine(l, r) == IF r = CH_LF THEN AddLine(l, offset(l)) ELSE l

IsSingleLineStyle(l, c) == HasPrefix(RawText(l, c), <<CH_SLASH, CH_SLASH>>)

(* The loop of setPrevAndAddComments that merges adjacent // comments: i   *)
(* is the Go index of the comment looked at; the result is groupEnd, 0     *)
(* when the loop ends without finding a detached comment.                  *)
RECURSIVE MergeGroup(_, _, _, _, _)
MergeGroup(l, cs, i, prevSingleLineStyle, prevCommentLine) ==
    IF i >= Len(cs) THEN 0
    ELSE LET c == cs[i + 1]
             singleLineStyle == IsSingleLineStyle(l, c)
         IN  IF ~prevSingleLineStyle
                  \/ TokenStartLine(l, c) > prevCommentLine + 1
             THEN i
             ELSE IF ~singleLineStyle THEN i
             ELSE MergeGroup(l, cs, i + 1, singleLineStyle, TokenEndLine(l, c))

\* GroupEnd that merges the // comments below a // comment on the line of
\* the previous terminal too.
GroupEndMergesSameLine(l, cs, prevEnd) ==
    LET prevSingleLineStyle == IsSingleLineStyle(l, cs[1])
    IN  IF ~prevSingleLineStyle THEN 1
        ELSE With(MergeGroup(l, cs, 1, prevSingleLineStyle,
                             TokenEndLine(l, cs[1])),
                  LAMBDA g : IF g = 0 THEN Len(cs) ELSE g)

\* The size of the first comment group (groupEnd).
GroupEnd(l, cs, prevEnd) ==
    LET commentStart == TokenStartLine(l, cs[1])
        prevSingleLineStyle == IsSingleLineStyle(l, cs[1])
    IN  IF commentStart = prevEnd \/ ~prevSingleLineStyle THEN 1
        ELSE With(MergeGroup(l, cs, 1, prevSingleLineStyle,
                             TokenEndLine(l, cs[1])),
                  LAMBDA g : IF g = 0 THEN Len(cs) ELSE g)

\* PrevTrailingCount with the zero rune of the end of input not counted as
\* punctuation.
PrevTrailingCountEOFNoPunctuation(l, n) ==
    LET cs == l.comments
    IN  IF l.prevSym.kind = "nil" \/ Len(cs) = 0 THEN 0
        ELSE LET prevEnd == TokenEndLine(l, l.prevSym.tok)
                 nStart == TokenStartLine(l, n.tok)
                 commentStart == TokenStartLine(l, cs[1])
             IN  IF ~(nStart > prevEnd /\ commentStart - prevEnd <= 1) THEN 0
                 ELSE With(GroupEnd(l, cs, prevEnd), LAMBDA groupEnd :
                      LET commentEnd == TokenEndLine(l, cs[groupEnd])
                          isPunctuation == n.kind = "rune" /\ n.rune # CH_DOT
                                              /\ n.rune # 0
                      IN  IF isPunctuation
                               \/ Len(cs) > groupEnd
                               \/ (commentStart = prevEnd /\ nStart > commentEnd)
                               \/ nStart - commentEnd > 1
                          THEN groupEnd
                          ELSE 0)

\* PrevTrailingCount that takes a comment on the line just above n for
\* detached from n.
PrevTrailingCountAdjacentDetached(l, n) ==
    LET cs == l.comments
    IN  IF l.prevSym.kind = "nil" \/ Len(cs) = 0 THEN 0
        ELSE LET prevEnd == TokenEndLine(l, l.prevSym.tok)
                 nStart == TokenStartLine(l, n.tok)
                 commentStart == TokenStartLine(l, cs[1])
             IN  IF ~(nStart > prevEnd /\ commentStart - prevEnd <= 1) THEN 0
                 ELSE With(GroupEnd(l, cs, prevEnd), LAMBDA groupEnd :
                      LET commentEnd == TokenEndLine(l, cs[groupEnd])
                          isPunctuation == n.kind = "rune" /\ n.rune # CH_DOT
                      IN  IF isPunctuation
                               \/ Len(cs) > groupEnd
                               \/ (commentStart = prevEnd /\ nStart > commentEnd)
                               \/ nStart - commentEnd >= 1
                          THEN groupEnd
                          ELSE 0)

\* PrevTrailingCount that counts the rune '.' as punctuation too.
PrevTrailingCountDotPunctuation(l, n) ==
    LET cs == l.comments
    IN  IF l.prevSym.kind = "nil" \/ Len(cs) = 0 THEN 0
        ELSE LET prevEnd == TokenEndLine(l, l.prevSym.tok)
                 nStart == TokenStartLine(l, n.tok)
                 commentStart == TokenStartLine(l, cs[1])
             IN  IF ~(nStart > prevEnd /\ commentStart - prevEnd <= 1) THEN 0
                 ELSE With(GroupEnd(l, cs, prevEnd), LAMBDA groupEnd :
                      LET commentEnd == TokenEndLine(l, cs[groupEnd])
                          isPunctuation == n.kind = "rune"
                      IN  IF isPunctuation
                               \/ Len(cs) > groupEnd
                               \/ (commentStart = prevEnd /\ nStart > commentEnd)
                               \/ nStart - commentEnd > 1
                          THEN groupEnd
                          ELSE 0)

\* The number of pending comments that become trailing comments of prevSym.
PrevTrailingCount(l, n) ==
    LET cs == l.comments
    IN  IF l.prevSym.kind = "nil" \/ Len(cs) = 0 THEN 0
        ELSE LET prevEnd == TokenEndLine(l, l.prevSym.tok)
                 nStart == TokenStartLine(l, n.tok)
                 commentStart == TokenStartLine(l, cs[1])
             IN  IF ~(nStart > prevEnd /\ commentStart - prevEnd <= 1) THEN 0
                 ELSE With(GroupEnd(l, cs, prevEnd), LAMBDA groupEnd :
                      LET commentEnd == TokenEndLine(l, cs[groupEnd])
                          isPunctuation == n.kind = "rune" /\ n.rune # CH_DOT
                      IN  IF isPunctuation
                               \/ Len(cs) > groupEnd
                               \/ (commentStart = prevEnd /\ nStart > commentEnd)
                               \/ nStart - commentEnd > 1
                          THEN groupEnd
                          ELSE 0)

RECURSIVE AddComments(_, _, _)
AddComments(l, cs, owner) ==
    IF cs = << >> THEN l
    ELSE AddComments(AddComment(l, Head(cs), owner), Tail(cs), owner)

\* setPrevAndAddComments giving prevSym the last comments instead of the
\* first.
setPrevAndAddCommentsLast(l, n) ==
    With(PrevTrailingCount(l, n), LAMBDA k :
        LET cs == l.comments
            l1 == AddComments([l EXCEPT !.comments = << >>],
                              SubSeq(cs, Len(cs) - k + 1, Len(cs)),
                              l.prevSym.tok)
            l2 == AddComments(l1, SubSeq(cs, 1, Len(cs) - k), n.tok)
        IN  [l2 EXCEPT !.prevSym = n])

setPrevAndAddComments(l, n) ==
    With(PrevTrailingCount(l, n), LAMBDA k :
        LET cs == l.comments
            l1 == AddComments([l EXCEPT !.comments = << >>], SubSeq(cs, 1, k),
                              l.prevSym.tok)
            l2 == AddComments(l1, SubSeq(cs, k + 1, Len(cs)), n.tok)
        IN  [l2 EXCEPT !.prevSym = n])

\* setString, setIdent, setInt, setFloat: a node of the kind over a new token.
setNode(l, kind, rune, val) ==
    LET l1 == newToken(l)
        n == NewNode(kind, LastToken(l1), rune, val)
    IN  setPrevAndAddComments([l1 EXCEPT !.lval = n], n)

setString(l, val) == setNode(l, "string", 0, val)
setIdent(l, val) == setNode(l, "ident", 0, val)
setInt(l, val) == setNode(l, "uint", 0, val)
setFloat(l, val) == setNode(l, "float", 0, val)
setRune(l, val) == setNode(l, "rune", val, << >>)

\* addSourceError reporting at the cursor.
addSourceErrorAtCursor(l, msg, stop) ==
    HandleError(l, [offset |-> offset(l), msg |-> msg], stop)

\* prev() is the source position of prevOffset; the diagnostic is kept as
\* that offset and the message.
addSourceError(l, msg, stop) ==
    HandleError(l, [offset |-> l.prevOffset, msg |-> msg], stop)

\* setError that forgets the previous terminal.
setErrorClearsPrev(l, msg, stop) ==
    [addSourceError(l, msg, stop)
        EXCEPT !.lval = [kind |-> "err", tok |-> 0 - 1, rune |-> 0, val |-> << >>],
               !.prevSym = NoNode]

setError(l, msg, stop) ==
    [addSourceError(l, msg, stop)
        EXCEPT !.lval = [kind |-> "err", tok |-> 0 - 1, rune |-> 0, val |-> << >>]]

\* What Lex returns: 0 at EOF, the rune of a rune token, or a token kind.
Ret(kind, c) == [kind |-> kind, c |-> c]

Return(l, kind, c) == [l EXCEPT !.ret = Ret(kind, c)]

-----------------------------------------------------------------------------
(* strconv.ParseUint(s, base, 64) for base 8, 10 or 16.  The value is kept *)
(* as four 16-bit limbs, least significant first; the scan stops at the    *)
(* first invalid digit (syntax) or at the first overflow (range).          *)

LimbBase == 65536

ZeroLimbs == <<0, 0, 0, 0>>

IsDigit(c) == c >= CH_ZERO /\ c <= CH_NINE
IsLower(c) == c >= CH_LOWER_A /\ c <= CH_LOWER_Z
IsUpper(c) == c >= CH_UPPER_A /\ c <= CH_UPPER_Z

\* The value of a digit character, 36 for a character that is no digit.
DigitVal(c) ==
    IF IsDigit(c) THEN c - CH_ZERO
    ELSE IF IsLower(c) THEN c - CH_LOWER_A + 10
    ELSE IF IsUpper(c) THEN c - CH_UPPER_A + 10
    ELSE 36

\* MulAdd wrapping around at 64 bits without reporting the carry.
MulAddDropsCarry(n, base, d) ==
    LET t1 == n[1] * base + d
        t2 == n[2] * base + (t1 \div LimbBase)
        t3 == n[3] * base + (t2 \div LimbBase)
        t4 == n[4] * base + (t3 \div LimbBase)
    IN  [v |-> <<t1 % LimbBase, t2 % LimbBase, t3 % LimbBase, t4 % LimbBase>>,
         carry |-> 0]

\* n * base + d on the limbs; carry is what does not fit in 64 bits.
MulAdd(n, base, d) ==
    LET t1 == n[1] * base + d
        t2 == n[2] * base + (t1 \div LimbBase)
        t3 == n[3] * base + (t2 \div LimbBase)
        t4 == n[4] * base + (t3 \div LimbBase)
    IN  [v |-> <<t1 % LimbBase, t2 % LimbBase, t3 % LimbBase, t4 % LimbBase>>,
         carry |-> t4 \div LimbBase]

RECURSIVE ParseUintFrom(_, _, _, _)
ParseUintFrom(s, i, base, n) ==
    IF i > Len(s) THEN [err |-> "nil", v |-> n]
    ELSE With(DigitVal(s[i]), LAMBDA d :
             IF d >= base THEN [err |-> "syntax", v |-> ZeroLimbs]
             ELSE With(MulAdd(n, base, d), LAMBDA m :
                      IF m.carry # 0 THEN [err |-> "range", v |-> ZeroLimbs]
                      ELSE ParseUintFrom(s, i + 1, base, m.v)))

ParseUint(s, base) ==
    IF s = << >> THEN [err |-> "syntax", v |-> ZeroLimbs]
    ELSE ParseUintFrom(s, 1, base, ZeroLimbs)

(* strconv.ParseInt(s, base, 32): an optional sign, then digits; the value *)
(* must fit in 32 signed bits.  ok is FALSE for any error.                 *)
MaxInt32 == 2147483647

RECURSIVE ParseIntFrom(_, _, _, _)
ParseIntFrom(s, i, base, n) ==
    IF i > Len(s) THEN [ok |-> TRUE, v |-> n]
    ELSE With(DigitVal(s[i]), LAMBDA d :
             IF d >= base THEN [ok |-> FALSE, v |-> 0]
             ELSE IF n > (MaxInt32 - d) \div base THEN [ok |-> FALSE, v |-> 0]
             ELSE ParseIntFrom(s, i + 1, base, n * base + d))

ParseInt(s, base) ==
    IF s = << >> THEN [ok |-> FALSE, v |-> 0]
    ELSE LET signed == s[1] = CH_PLUS \/ s[1] = CH_MINUS
             digits == IF signed THEN Tail(s) ELSE s
         IN  With(IF digits = << >> THEN [ok |-> FALSE, v |-> 0]
                  ELSE ParseIntFrom(digits, 1, base, 0),
                  LAMBDA u :
                      IF u.ok /\ s[1] = CH_MINUS
                      THEN [ok |-> TRUE, v |-> 0 - u.v]
                      ELSE u)

-----------------------------------------------------------------------------
(* strconv.ParseFloat(token, 64) on a decimal lexeme: digits with at most  *)
(* one dot and at least one digit, then an optional exponent e[+-]digits.  *)
(* FloatScan returns the syntax verdict with the mantissa digits, dp (the  *)
(* number of digits before the dot) and the exponent.                      *)

RECURSIVE ScanMantissa(_, _, _, _, _)
ScanMantissa(s, i, sawdot, digs, dp) ==
    IF i <= Len(s) /\ s[i] = CH_DOT /\ ~sawdot
    THEN ScanMantissa(s, i + 1, TRUE, digs, Len(digs))
    ELSE IF i <= Len(s) /\ IsDigit(s[i])
    THEN ScanMantissa(s, i + 1, sawdot, Append(digs, s[i] - CH_ZERO), dp)
    ELSE [i |-> i, digs |-> digs, dp |-> IF sawdot THEN dp ELSE Len(digs)]

\* The exponent digits; as in the library the value stops growing at 10000.
RECURSIVE ScanExponent(_, _, _)
ScanExponent(s, i, e) ==
    IF i <= Len(s) /\ IsDigit(s[i])
    THEN ScanExponent(s, i + 1,
                      IF e < 10000 THEN e * 10 + (s[i] - CH_ZERO) ELSE e)
    ELSE [i |-> i, e |-> e]

FloatScan(s) ==
    With(ScanMantissa(s, 1, FALSE, << >>, 0), LAMBDA m :
        LET bad == [ok |-> FALSE, digs |-> << >>, dp |-> 0, e |-> 0]
            i == m.i
        IN  IF m.digs = << >> THEN bad
            ELSE IF i > Len(s)
                 THEN [ok |-> TRUE, digs |-> m.digs, dp |-> m.dp, e |-> 0]
            ELSE IF s[i] # CH_LOWER_E /\ s[i] # CH_UPPER_E THEN bad
            ELSE LET signed == i + 1 <= Len(s)
                                 /\ (s[i + 1] = CH_PLUS \/ s[i + 1] = CH_MINUS)
                     j == IF signed THEN i + 2 ELSE i + 1
                 IN  IF j > Len(s) \/ ~IsDigit(s[j]) THEN bad
                     ELSE With(ScanExponent(s, j, 0), LAMBDA x :
                              IF x.i <= Len(s) THEN bad
                              ELSE [ok |-> TRUE, digs |-> m.digs, dp |-> m.dp,
                                    e |-> IF signed /\ s[i + 1] = CH_MINUS
                                          THEN 0 - x.e ELSE x.e]))

RECURSIVE StripLeadingZeros(_)
StripLeadingZeros(d) ==
    IF d # << >> /\ Head(d) = 0 THEN StripLeadingZeros(Tail(d)) ELSE d

RECURSIVE StripTrailingZeros(_)
StripTrailingZeros(d) ==
    IF d # << >> /\ d[Len(d)] = 0
    THEN StripTrailingZeros(SubSeq(d, 1, Len(d) - 1))
    ELSE d

\* a < b for digit strings read as the fractions 0.a and 0.b.
RECURSIVE FracLess(_, _)
FracLess(a, b) ==
    IF b = << >> THEN FALSE
    ELSE IF a = << >> THEN TRUE
    ELSE IF Head(a) # Head(b) THEN Head(a) < Head(b)
    ELSE FracLess(Tail(a), Tail(b))

InfThreshold ==
    << 1, 7, 9, 7, 6, 9, 3, 1, 3, 4, 8, 6, 2, 3, 1, 5, 8, 0, 7, 9, 3, 7, 2, 8, 9, 7, 1, 4, 0, 5,
       3, 0, 3, 4, 1, 5, 0, 7, 9, 9, 3, 4, 1, 3, 2, 7, 1, 0, 0, 3, 7, 8, 2, 6, 9, 3, 6, 1, 7, 3,
       7, 7, 8, 9, 8, 0, 4, 4, 4, 9, 6, 8, 2, 9, 2, 7, 6, 4, 7, 5, 0, 9, 4, 6, 6, 4, 9, 0, 1, 7,
       9, 7, 7, 5, 8, 7, 2, 0, 7, 0, 9, 6, 3, 3, 0, 2, 8, 6, 4, 1, 6, 6, 9, 2, 8, 8, 7, 9, 1, 0,
       9, 4, 6, 5, 5, 5, 5, 4, 7, 8, 5, 1, 9, 4, 0, 4, 0, 2, 6, 3, 0, 6, 5, 7, 4, 8, 8, 6, 7, 1,
       5, 0, 5, 8, 2, 0, 6, 8, 1, 9, 0, 8, 9, 0, 2, 0, 0, 0, 7, 0, 8, 3, 8, 3, 6, 7, 6, 2, 7, 3,
       8, 5, 4, 8, 4, 5, 8, 1, 7, 7, 1, 1, 5, 3, 1, 7, 6, 4, 4, 7, 5, 7, 3, 0, 2, 7, 0, 0, 6, 9,
       8, 5, 5, 5, 7, 1, 3, 6, 6, 9, 5, 9, 6, 2, 2, 8, 4, 2, 9, 1, 4, 8, 1, 9, 8, 6, 0, 8, 3, 4,
       9, 3, 6, 4, 7, 5, 2, 9, 2, 7, 1, 9, 0, 7, 4, 1, 6, 8, 4, 4, 4, 3, 6, 5, 5, 1, 0, 7, 0, 4,
       3, 4, 2, 7, 1, 1, 5, 5, 9, 6, 9, 9, 5, 0, 8, 0, 9, 3, 0, 4, 2, 8, 8, 0, 1, 7, 7, 9, 0, 4,
       1, 7, 4, 4, 9, 7, 7, 9, 2 >>

\* The float64 a valid lexeme denotes: <<1>> for +Inf, else <<0, E>> followed
\* by the significant digits d of the exact value 0.d * 10^E (<<0, 0>> for
\* zero).  The value overflows to +Inf from 2^1024 - 2^970 on, which the
\* library rounds up to 2^1024.
FloatValue(sc) ==
    With(StripLeadingZeros(sc.digs), LAMBDA sig :
        With(StripTrailingZeros(sig), LAMBDA d :
            LET E == sc.dp + sc.e - (Len(sc.digs) - Len(sig))
            IN  IF d = << >> THEN <<0, 0>>
                ELSE IF E > 309 \/ (E = 309 /\ ~FracLess(d, InfThreshold))
                     THEN <<1>>
                ELSE <<0, E>> \o d))

Contains(s, c) == \E i \in 1..Len(s) : s[i] = c

\* parseFloat returning the range error of the library instead of +Inf.
parseFloatReportsRange(token) ==
    IF Contains(token, CH_UNDERSCORE) THEN [err |-> "syntax", f |-> <<0, 0>>]
    ELSE With(FloatScan(token), LAMBDA sc :
             IF ~sc.ok THEN [err |-> "syntax", f |-> <<0, 0>>]
             ELSE With(FloatValue(sc), LAMBDA f :
                      IF f = <<1>> THEN [err |-> "range", f |-> f]
                      ELSE [err |-> "nil", f |-> f]))

parseFloat(token) ==
    IF Contains(token, CH_UNDERSCORE) THEN [err |-> "syntax", f |-> <<0, 0>>]
    ELSE With(FloatScan(token), LAMBDA sc :
             IF sc.ok THEN [err |-> "nil", f |-> FloatValue(sc)]
             ELSE [err |-> "syntax", f |-> <<0, 0>>])

\* The message of the diagnostic, without the lexeme that follows it.
numError(e, kind) ==
    IF e = "range" THEN "value out of range for " \o kind
    ELSE "invalid syntax in " \o kind \o " value"

-----------------------------------------------------------------------------
(* The scanners.  Each takes the lexer state after the first rune of the   *)
(* token was read and returns the state with the cursor past the lexeme.   *)

RECURSIVE readNumberLoop(_, _)
readNumberLoop(l, allowExpSign) ==
    With(readRune(l), LAMBDA rd :
        LET c == rd.r
        IN  IF rd.err.kind # "nil" THEN rd.l
            ELSE IF (c = CH_MINUS \/ c = CH_PLUS) /\ ~allowExpSign
                 THEN unreadRune(rd.l, rd.sz)
            ELSE IF c # CH_DOT /\ c # CH_UNDERSCORE /\ ~IsDigit(c)
                      /\ ~IsLower(c) /\ ~IsUpper(c) /\ c # CH_MINUS
                      /\ c # CH_PLUS
                 THEN unreadRune(rd.l, rd.sz)
            ELSE readNumberLoop(rd.l, c = CH_LOWER_E \/ c = CH_UPPER_E))

\* readNumber that takes a sign right after the first digit.
readNumberSignFirst(l) == readNumberLoop(l, TRUE)

readNumber(l) == readNumberLoop(l, FALSE)

RECURSIVE readIdentifier(_)
readIdentifier(l) ==
    With(readRune(l), LAMBDA rd :
        LET c == rd.r
        IN  IF rd.err.kind # "nil" THEN rd.l
            ELSE IF c # CH_UNDERSCORE /\ ~IsLower(c) /\ ~IsUpper(c)
                      /\ ~IsDigit(c)
                 THEN unreadRune(rd.l, rd.sz)
            ELSE readIdentifier(rd.l))

(* skipToEndOfLineComment: the state and hasErr.  The newline that ends    *)
(* the comment is consumed and registered here.                            *)
RECURSIVE skipToEndOfLineComment(_, _)
skipToEndOfLineComment(l, stop) ==
    With(readRune(l), LAMBDA rd :
        IF rd.err.kind # "nil" THEN [l |-> rd.l, hasErr |-> FALSE]
        ELSE IF rd.r = CH_LF
             THEN [l |-> AddLine(rd.l, offset(rd.l)), hasErr |-> FALSE]
        ELSE IF rd.r = CH_NUL
             THEN [l |-> setError(rd.l, "invalid control character", stop),
                   hasErr |-> TRUE]
        ELSE skipToEndOfLineComment(rd.l, stop))

\* skipToEndOfBlockComment with the rune read ahead after a '*' registered
\* as a line end before it is unread.
RECURSIVE skipToEndOfBlockCommentLookaheadLine(_, _)
skipToEndOfBlockCommentLookaheadLine(l, stop) ==
    With(readRune(l), LAMBDA rd :
        IF rd.err.kind # "nil"
        THEN [l |-> rd.l, ok |-> FALSE, hasErr |-> FALSE]
        ELSE IF rd.r = CH_NUL
        THEN [l |-> setError(rd.l, "invalid control character", stop),
              ok |-> FALSE, hasErr |-> TRUE]
        ELSE IF rd.r # CH_STAR
        THEN skipToEndOfBlockCommentLookaheadLine(maybeNewLine(rd.l, rd.r),
                                                  stop)
        ELSE With(readRune(maybeNewLine(rd.l, rd.r)), LAMBDA rn :
                 IF rn.err.kind # "nil"
                 THEN [l |-> rn.l, ok |-> FALSE, hasErr |-> FALSE]
                 ELSE IF rn.r = CH_SLASH
                 THEN [l |-> rn.l, ok |-> TRUE, hasErr |-> FALSE]
                 ELSE skipToEndOfBlockCommentLookaheadLine(
                          unreadRune(maybeNewLine(rn.l, rn.r), rn.sz), stop)))

(* skipToEndOfBlockComment: the state, ok and hasErr.  The rune after a    *)
(* '*' is read ahead and, unless it is '/', unread and read again.         *)
RECURSIVE skipToEndOfBlockComment(_, _)
skipToEndOfBlockComment(l, stop) ==
    With(readRune(l), LAMBDA rd :
        IF rd.err.kind # "nil"
        THEN [l |-> rd.l, ok |-> FALSE, hasErr |-> FALSE]
        ELSE IF rd.r = CH_NUL
        THEN [l |-> setError(rd.l, "invalid control character", stop),
              ok |-> FALSE, hasErr |-> TRUE]
        ELSE IF rd.r # CH_STAR
        THEN skipToEndOfBlockComment(maybeNewLine(rd.l, rd.r), stop)
        ELSE With(readRune(maybeNewLine(rd.l, rd.r)), LAMBDA rn :
                 IF rn.err.kind # "nil"
                 THEN [l |-> rn.l, ok |-> FALSE, hasErr |-> FALSE]
                 ELSE IF rn.r = CH_SLASH
                 THEN [l |-> rn.l, ok |-> TRUE, hasErr |-> FALSE]
                 ELSE skipToEndOfBlockComment(unreadRune(rn.l, rn.sz), stop)))

-----------------------------------------------------------------------------
(* String literals.                                                        *)

\* utf8.EncodeRune as WriteRune uses it: U+FFFD for an invalid rune.
EncodeRune(r) ==
    IF r < 0 \/ r > 1114111 \/ (r >= 55296 /\ r <= 57343) THEN <<239, 191, 189>>
    ELSE IF r < 128 THEN <<r>>
    ELSE IF r < 2048 THEN <<192 + (r \div 64), 128 + (r % 64)>>
    ELSE IF r < 65536
         THEN <<224 + (r \div 4096), 128 + ((r \div 64) % 64), 128 + (r % 64)>>
    ELSE <<240 + (r \div 262144), 128 + ((r \div 4096) % 64),
           128 + ((r \div 64) % 64), 128 + (r % 64)>>

IsHexDigit(c) ==
    IsDigit(c) \/ (c >= CH_LOWER_A /\ c <= CH_LOWER_F)
               \/ (c >= CH_UPPER_A /\ c <= CH_UPPER_F)

IsOctalDigit(c) == c >= CH_ZERO /\ c <= CH_SEVEN

\* The message of an error the rune reader returned.
ReadErrMsg(e) == IF e.kind = "EOF" THEN "EOF" ELSE "invalid UTF8"

StrErr(l, msg) == [l |-> l, err |-> msg, buf |-> << >>]
StrOk(l, buf) == [l |-> l, err |-> "nil", buf |-> buf]

\* The loop that reads the n runes of a \u or \U escape.
RECURSIVE ReadRunes(_, _, _)
ReadRunes(l, n, u) ==
    IF n = 0 THEN [l |-> l, err |-> NoErr, u |-> u]
    ELSE With(readRune(l), LAMBDA rd :
             IF rd.err.kind # "nil" THEN [l |-> rd.l, err |-> rd.err, u |-> u]
             ELSE ReadRunes(rd.l, n - 1, Append(u, rd.r)))

\* \x or \X: one rune, then a second one that is kept only if it is a hex
\* digit; the one or two runes are handed to ParseInt.
HexEscape(l, buf) ==
    With(readRune(l), LAMBDA r1 :
        IF r1.err.kind # "nil" THEN StrErr(r1.l, ReadErrMsg(r1.err))
        ELSE With(readRune(r1.l), LAMBDA r2 :
            IF r2.err.kind # "nil" THEN StrErr(r2.l, ReadErrMsg(r2.err))
            ELSE With(IsHexDigit(r2.r), LAMBDA two :
                With(IF two THEN r2.l ELSE unreadRune(r2.l, r2.sz), LAMBDA l2 :
                    With(ParseInt(IF two THEN <<r1.r, r2.r>> ELSE <<r1.r>>, 16),
                         LAMBDA i :
                             IF ~i.ok THEN StrErr(l2, "invalid hex escape")
                             ELSE StrOk(l2, Append(buf, i.v % 256)))))))

\* The byte of the octal digits read.
OctalValue(l, octal, buf) ==
    With(ParseInt(octal, 8), LAMBDA i :
        IF ~i.ok THEN StrErr(l, "invalid octal escape")
        ELSE IF i.v > 255 THEN StrErr(l, "octal escape is out range")
        ELSE StrOk(l, Append(buf, i.v % 256)))

\* OctalEscape reading at most one more digit.
OctalEscapeTwoDigits(l, c, buf) ==
    With(readRune(l), LAMBDA r2 :
        IF r2.err.kind # "nil" THEN StrErr(r2.l, ReadErrMsg(r2.err))
        ELSE IF ~IsOctalDigit(r2.r)
        THEN OctalValue(unreadRune(r2.l, r2.sz), <<c>>, buf)
        ELSE OctalValue(r2.l, <<c, r2.r>>, buf))

\* An octal escape whose first digit c was read: up to two more digits.
OctalEscape(l, c, buf) ==
    With(readRune(l), LAMBDA r2 :
        IF r2.err.kind # "nil" THEN StrErr(r2.l, ReadErrMsg(r2.err))
        ELSE IF ~IsOctalDigit(r2.r)
        THEN OctalValue(unreadRune(r2.l, r2.sz), <<c>>, buf)
        ELSE With(readRune(r2.l), LAMBDA r3 :
            IF r3.err.kind # "nil" THEN StrErr(r3.l, ReadErrMsg(r3.err))
            ELSE IF ~IsOctalDigit(r3.r)
            THEN OctalValue(unreadRune(r3.l, r3.sz), <<c, r2.r>>, buf)
            ELSE OctalValue(r3.l, <<c, r2.r, r3.r>>, buf)))

\* UnicodeEscape writing the low byte of the codepoint instead of its UTF-8
\* encoding.
UnicodeEscapeOneByte(l, n, buf) ==
    With(ReadRunes(l, n, << >>), LAMBDA ru :
        IF ru.err.kind # "nil" THEN StrErr(ru.l, ReadErrMsg(ru.err))
        ELSE With(ParseInt(ru.u, 16), LAMBDA i :
            IF ~i.ok THEN StrErr(ru.l, "invalid unicode escape")
            ELSE IF n = 8 /\ (i.v > 1114111 \/ i.v < 0)
                 THEN StrErr(ru.l, "unicode escape is out of range")
            ELSE StrOk(ru.l, Append(buf, i.v % 256))))

\* \u (n = 4) and \U (n = 8).
UnicodeEscape(l, n, buf) ==
    With(ReadRunes(l, n, << >>), LAMBDA ru :
        IF ru.err.kind # "nil" THEN StrErr(ru.l, ReadErrMsg(ru.err))
        ELSE With(ParseInt(ru.u, 16), LAMBDA i :
            IF ~i.ok THEN StrErr(ru.l, "invalid unicode escape")
            ELSE IF n = 8 /\ (i.v > 1114111 \/ i.v < 0)
                 THEN StrErr(ru.l, "unicode escape is out of range")
            ELSE StrOk(ru.l, buf \o EncodeRune(i.v))))

\* The byte of a single-character escape, -1 if c is not one.
SimpleEscape(c) ==
    IF c = CH_LOWER_A THEN 7
    ELSE IF c = CH_LOWER_B THEN 8
    ELSE IF c = CH_LOWER_F THEN 12
    ELSE IF c = CH_LOWER_N THEN 10
    ELSE IF c = CH_LOWER_R THEN 13
    ELSE IF c = CH_LOWER_T THEN 9
    ELSE IF c = CH_LOWER_V THEN 11
    ELSE IF c = CH_BACKSLASH \/ c = CH_SQUOTE \/ c = CH_DQUOTE
            \/ c = CH_QUESTION THEN c
    ELSE 0 - 1

\* The escape sequence after a backslash.
Escape(l, buf) ==
    With(readRune(l), LAMBDA rd :
        LET c == rd.r
        IN  IF rd.err.kind # "nil" THEN StrErr(rd.l, ReadErrMsg(rd.err))
            ELSE IF c = CH_LOWER_X \/ c = CH_UPPER_X THEN HexEscape(rd.l, buf)
            ELSE IF IsOctalDigit(c) THEN OctalEscape(rd.l, c, buf)
            ELSE IF c = CH_LOWER_U \/ c = CH_UPPER_U
                 THEN UnicodeEscape(rd.l, IF c = CH_LOWER_U THEN 4 ELSE 8, buf)
            ELSE With(SimpleEscape(c), LAMBDA b :
                     IF b >= 0 THEN StrOk(rd.l, Append(buf, b))
                     ELSE StrErr(rd.l, "invalid escape sequence")))

RECURSIVE readStringLiteralLoop(_, _, _)
readStringLiteralLoop(l, quote, buf) ==
    With(readRune(l), LAMBDA rd :
        LET c == rd.r
        IN  IF rd.err.kind = "EOF" THEN StrErr(rd.l, "unexpected EOF")
            ELSE IF rd.err.kind # "nil" THEN StrErr(rd.l, ReadErrMsg(rd.err))
            ELSE IF c = CH_LF
                 THEN StrErr(rd.l, "encountered end-of-line before end of string literal")
            ELSE IF c = quote THEN StrOk(rd.l, buf)
            ELSE IF c = CH_NUL
                 THEN StrErr(rd.l, "null character ('\\0') not allowed in string literal")
            ELSE IF c = CH_BACKSLASH
                 THEN With(Escape(rd.l, buf), LAMBDA esc :
                          IF esc.err # "nil" THEN esc
                          ELSE readStringLiteralLoop(esc.l, quote, esc.buf))
            ELSE readStringLiteralLoop(rd.l, quote, buf \o EncodeRune(c)))

\* readStringLiteral ending the string at a double quote whatever opened it.
readStringLiteralAnyOpening(l, quote) ==
    readStringLiteralLoop(l, CH_DQUOTE, << >>)

readStringLiteral(l, quote) == readStringLiteralLoop(l, quote, << >>)

\* The keyword table.
keywords ==
    { [name |-> <<115, 121, 110, 116, 97, 120>>, tok |-> "_SYNTAX"],
      [name |-> <<105, 109, 112, 111, 114, 116>>, tok |-> "_IMPORT"],
      [name |-> <<119, 101, 97, 107>>, tok |-> "_WEAK"],
      [name |-> <<112, 117, 98, 108, 105, 99>>, tok |-> "_PUBLIC"],
      [name |-> <<112, 97, 99, 107, 97, 103, 101>>, tok |-> "_PACKAGE"],
      [name |-> <<111, 112, 116, 105, 111, 110>>, tok |-> "_OPTION"],
      [name |-> <<116, 114, 117, 101>>, tok |-> "_TRUE"],
      [name |-> <<102, 97, 108, 115, 101>>, tok |-> "_FALSE"],
      [name |-> <<105, 110, 102>>, tok |-> "_INF"],
      [name |-> <<110, 97, 110>>, tok |-> "_NAN"],
      [name |-> <<114, 101, 112, 101, 97, 116, 101, 100>>, tok |-> "_REPEATED"],
      [name |-> <<111, 112, 116, 105, 111, 110, 97, 108>>, tok |-> "_OPTIONAL"],
      [name |-> <<114, 101, 113, 117, 105, 114, 101, 100>>, tok |-> "_REQUIRED"],
      [name |-> <<100, 111, 117, 98, 108, 101>>, tok |-> "_DOUBLE"],
      [name |-> <<102, 108, 111, 97, 116>>, tok |-> "_FLOAT"],
      [name |-> <<105, 110, 116, 51, 50>>, tok |-> "_INT32"],
      [name |-> <<105, 110, 116, 54, 52>>, tok |-> "_INT64"],
      [name |-> <<117, 105, 110, 116, 51, 50>>, tok |-> "_UINT32"],
      [name |-> <<117, 105, 110, 116, 54, 52>>, tok |-> "_UINT64"],
      [name |-> <<115, 105, 110, 116, 51, 50>>, tok |-> "_SINT32"],
      [name |-> <<115, 105, 110, 116, 54, 52>>, tok |-> "_SINT64"],
      [name |-> <<102, 105, 120, 101, 100, 51, 50>>, tok |-> "_FIXED32"],
      [name |-> <<102, 105, 120, 101, 100, 54, 52>>, tok |-> "_FIXED64"],
      [name |-> <<115, 102, 105, 120, 101, 100, 51, 50>>, tok |-> "_SFIXED32"],
      [name |-> <<115, 102, 105, 120, 101, 100, 54, 52>>, tok |-> "_SFIXED64"],
      [name |-> <<98, 111, 111, 108>>, tok |-> "_BOOL"],
      [name |-> <<115, 116, 114, 105, 110, 103>>, tok |-> "_STRING"],
      [name |-> <<98, 121, 116, 101, 115>>, tok |-> "_BYTES"],
      [name |-> <<103, 114, 111, 117, 112>>, tok |-> "_GROUP"],
      [name |-> <<111, 110, 101, 111, 102>>, tok |-> "_ONEOF"],
      [name |-> <<109, 97, 112>>, tok |-> "_MAP"],
      [name |-> <<101, 120, 116, 101, 110, 115, 105, 111, 110, 115>>, tok |-> "_EXTENSIONS"],
      [name |-> <<116, 111>>, tok |-> "_TO"],
      [name |-> <<109, 97, 120>>, tok |-> "_MAX"],
      [name |-> <<114, 101, 115, 101, 114, 118, 101, 100>>, tok |-> "_RESERVED"],
      [name |-> <<101, 110, 117, 109>>, tok |-> "_ENUM"],
      [name |-> <<109, 101, 115, 115, 97, 103, 101>>, tok |-> "_MESSAGE"],
      [name |-> <<101, 120, 116, 101, 110, 100>>, tok |-> "_EXTEND"],
      [name |-> <<115, 101, 114, 118, 105, 99, 101>>, tok |-> "_SERVICE"],
      [name |-> <<114, 112, 99>>, tok |-> "_RPC"],
      [name |-> <<115, 116, 114, 101, 97, 109>>, tok |-> "_STREAM"],
      [name |-> <<114, 101, 116, 117, 114, 110, 115>>, tok |-> "_RETURNS"] }

-----------------------------------------------------------------------------
(* Lex.  The branches of the loop body are operators of their own; each    *)
(* takes the state after the first rune c of the token was read.           *)

IsKeyword(str) == \E k \in keywords : k.name = str

KeywordToken(str) == (CHOOSE k \in keywords : k.name = str).tok

\* The float literal lexed: its value, or the diagnostic of parseFloat.
LexFloat(l, token, stop) ==
    With(parseFloat(token), LAMBDA f :
        IF f.err # "nil"
        THEN Return(setError(l, numError(f.err, "float"), stop), "_ERROR", 0)
        ELSE Return(setFloat(l, f.f), "_FLOAT_LIT", 0))

\* '.': a float literal if a digit follows, else the rune '.'.
LexDot(l, c, stop) ==
    With(readRune(l), LAMBDA rn :
        IF rn.err.kind # "nil" THEN Return(setRune(rn.l, c), "RUNE", c)
        ELSE IF IsDigit(rn.r)
             THEN With(readNumber(rn.l), LAMBDA l1 :
                      LexFloat(l1, getMark(l1), stop))
        ELSE Return(setRune(unreadRune(rn.l, rn.sz), c), "RUNE", c))

\* Identifier or keyword.
LexIdent(l) ==
    With(readIdentifier(l), LAMBDA l1 :
        With(getMark(l1), LAMBDA str :
            Return(setIdent(l1, str),
                   IF IsKeyword(str) THEN KeywordToken(str) ELSE "_NAME", 0)))

\* Integer literal, decimal or octal; a float if it is out of range.
LexInteger(l, token, stop) ==
    LET base == IF token[1] = CH_ZERO THEN 8 ELSE 10
        kind == IF base = 8 THEN "octal integer" ELSE "integer"
    IN  With(ParseUint(token, base), LAMBDA ui :
            IF ui.err = "nil" THEN Return(setInt(l, ui.v), "_INT_LIT", 0)
            ELSE IF ui.err = "range" THEN LexFloat(l, token, stop)
            ELSE Return(setError(l, numError(ui.err, kind), stop), "_ERROR", 0))

\* Hexadecimal integer literal.
LexHex(l, token, stop) ==
    With(ParseUint(SubSeq(token, 3, Len(token)), 16), LAMBDA ui :
        IF ui.err # "nil"
        THEN Return(setError(l, numError(ui.err, "hexadecimal integer"), stop),
                    "_ERROR", 0)
        ELSE Return(setInt(l, ui.v), "_INT_LIT", 0))

\* Integer or float literal.
LexNumber(l, stop) ==
    With(readNumber(l), LAMBDA l1 :
        With(getMark(l1), LAMBDA token :
            IF HasPrefix(token, <<CH_ZERO, CH_LOWER_X>>)
               \/ HasPrefix(token, <<CH_ZERO, CH_UPPER_X>>)
            THEN LexHex(l1, token, stop)
            ELSE IF Contains(token, CH_DOT) \/ Contains(token, CH_LOWER_E)
                    \/ Contains(token, CH_UPPER_E)
            THEN LexFloat(l1, token, stop)
            ELSE LexInteger(l1, token, stop)))

\* String literal.
LexString(l, c, stop) ==
    With(readStringLiteral(l, c), LAMBDA s :
        IF s.err # "nil" THEN Return(setError(s.l, s.err, stop), "_ERROR", 0)
        ELSE Return(setString(s.l, s.buf), "_STRING_LIT", 0))

\* The end of the loop body: control characters, other characters, runes.
LexRune(l, c, stop) ==
    IF c < 32 \/ c = CH_DEL
    THEN Return(setError(l, "invalid control character", stop), "_ERROR", 0)
    ELSE IF c \notin Punctuation
    THEN Return(setError(l, "invalid character", stop), "_ERROR", 0)
    ELSE Return(setRune(l, c), "RUNE", c)

\* StartToken with the mark left where it was.
StartTokenKeepsMark(l) == [l EXCEPT !.prevOffset = offset(l)]

\* The top of the loop body: the mark and prevOffset are set to the cursor.
StartToken(l) == [setMark(l) EXCEPT !.prevOffset = offset(l)]

\* The end of input: the sentinel rune 0, kept in l.eof.
\* The end of input returned without the sentinel token.
LexEOFNoSentinel(l) == Return(l, "EOF", 0)

LexEOF(l) ==
    With(setRune(l, 0), LAMBDA sentinel :
        Return([sentinel EXCEPT !.eof = sentinel.lval.tok], "EOF", 0))

\* l.comments = append(l.comments, l.newToken()).
AppendComment(l) ==
    With(newToken(l), LAMBDA t :
        [t EXCEPT !.comments = Append(t.comments, LastToken(t))])

RECURSIVE LexLoop(_, _)

\* LexSlash looking for the end of a block comment from the '*' of its
\* opening on.
LexSlashRereadsStar(l, c, stop) ==
    With(readRune(l), LAMBDA rn :
        IF rn.err.kind # "nil"
        THEN Return(setRune(rn.l, CH_SLASH), "RUNE", c)
        ELSE IF rn.r = CH_SLASH
        THEN With(skipToEndOfLineComment(rn.l, stop), LAMBDA lc :
                 IF lc.hasErr THEN Return(lc.l, "_ERROR", 0)
                 ELSE LexLoop(AppendComment(lc.l), stop))
        ELSE IF rn.r = CH_STAR
        THEN With(skipToEndOfBlockComment(unreadRune(rn.l, rn.sz), stop),
                  LAMBDA bc :
                 IF bc.hasErr THEN Return(bc.l, "_ERROR", 0)
                 ELSE IF ~bc.ok
                 THEN Return(setError(bc.l,
                          "block comment never terminates, unexpected EOF",
                          stop), "_ERROR", 0)
                 ELSE LexLoop(AppendComment(bc.l), stop))
        ELSE LexRune(unreadRune(rn.l, rn.sz), c, stop))

\* '/': a comment, after which the loop goes on, or the end of the body.
LexSlash(l, c, stop) ==
    With(readRune(l), LAMBDA rn :
        IF rn.err.kind # "nil"
        THEN Return(setRune(rn.l, CH_SLASH), "RUNE", c)
        ELSE IF rn.r = CH_SLASH
        THEN With(skipToEndOfLineComment(rn.l, stop), LAMBDA lc :
                 IF lc.hasErr THEN Return(lc.l, "_ERROR", 0)
                 ELSE LexLoop(AppendComment(lc.l), stop))
        ELSE IF rn.r = CH_STAR
        THEN With(skipToEndOfBlockComment(rn.l, stop), LAMBDA bc :
                 IF bc.hasErr THEN Return(bc.l, "_ERROR", 0)
                 ELSE IF ~bc.ok
                 THEN Return(setError(bc.l,
                          "block comment never terminates, unexpected EOF",
                          stop), "_ERROR", 0)
                 ELSE LexLoop(AppendComment(bc.l), stop))
        ELSE LexRune(unreadRune(rn.l, rn.sz), c, stop))

LexLoop(l0, stop) ==
    With(readRune(StartToken(l0)), LAMBDA rd :
        LET l == rd.l
            c == rd.r
        IN  IF rd.err.kind = "EOF" THEN LexEOF(l)
            ELSE IF rd.err.kind # "nil"
            THEN Return(setError(l, ReadErrMsg(rd.err), stop), "_ERROR", 0)
            ELSE IF c \in Whitespace THEN LexLoop(maybeNewLine(l, c), stop)
            ELSE IF c = CH_DOT THEN LexDot(l, c, stop)
            ELSE IF c = CH_UNDERSCORE \/ IsLower(c) \/ IsUpper(c)
                 THEN LexIdent(l)
            ELSE IF IsDigit(c) THEN LexNumber(l, stop)
            ELSE IF c = CH_SQUOTE \/ c = CH_DQUOTE THEN LexString(l, c, stop)
            ELSE IF c = CH_SLASH THEN LexSlash(l, c, stop)
            ELSE LexRune(l, c, stop))

-----------------------------------------------------------------------------
(* The state machine.                                                      *)

\* The lexer state as the record the operators above work on.
L ==
    [ pos |-> pos, mark |-> mark, err |-> err, lines |-> lines,
      tokens |-> tokens, attached |-> attached, comments |-> comments,
      prevSym |-> prevSym, prevOffset |-> prevOffset, eof |-> eof,
      handlerErr |-> handlerErr, diags |-> diags, lval |-> lval, ret |-> ret,
      panicked |-> panicked, unreads |-> unreads ]

\* The variables take the fields of the state r an operation returned.
Becomes(r) ==
    /\ pos' = r.pos
    /\ mark' = r.mark
    /\ err' = r.err
    /\ lines' = r.lines
    /\ tokens' = r.tokens
    /\ attached' = r.attached
    /\ comments' = r.comments
    /\ prevSym' = r.prevSym
    /\ prevOffset' = r.prevOffset
    /\ eof' = r.eof
    /\ handlerErr' = r.handlerErr
    /\ diags' = r.diags
    /\ lval' = r.lval
    /\ ret' = r.ret
    /\ panicked' = r.panicked
    /\ unreads' = r.unreads

\* newLexer: a leading byte order mark is dropped from the contents; the
\* reader starts at offset 0, the file info has the first line start and
\* nothing is lexed yet.
Contents(in) ==
    IF Len(in) >= 3 /\ SubSeq(in, 1, 3) = utf8Bom
    THEN SubSeq(in, 4, Len(in))
    ELSE in

newLexer(in) ==
    /\ input = in
    /\ data = Contents(in)
    /\ pos = 0
    /\ mark = 0
    /\ err = NoErr
    /\ lines = <<0>>
    /\ tokens = << >>
    /\ attached = << >>
    /\ comments = << >>
    /\ prevSym = NoNode
    /\ prevOffset = 0
    /\ eof = 0 - 1
    /\ handlerErr = FALSE
    /\ diags = << >>
    /\ lval = NoNode
    /\ ret = Ret("none", 0)
    /\ panicked = FALSE
    /\ unreads = 0
    /\ stickyCalls = 0
    /\ syntaxErrs = 0

\* LexCall with the pending comments dropped before the handler is asked.
LexCallClearsFirst(l, stop) ==
    LET l1 == [l EXCEPT !.comments = << >>]
    IN  IF ReporterError(l1) THEN Return(l1, "EOF", 0) ELSE LexLoop(l1, stop)

\* The body of Lex: nothing happens once the handler has a sticky error;
\* otherwise the pending comments are dropped and the loop runs.
LexCall(l, stop) ==
    IF ReporterError(l) THEN Return(l, "EOF", 0)
    ELSE LexLoop([l EXCEPT !.comments = << >>], stop)

\* Lex(lval), with the reporter's decision about an error chosen freely.
\* Calls made when the rune reader already has its error are counted, so
\* that Lex is not called for ever at the end of the input.
Lex ==
    /\ ~panicked
    /\ (~handlerErr /\ err.kind # "nil") => stickyCalls < MaxStickyCalls
    /\ \E stop \in BOOLEAN : Becomes(LexCall(L, stop))
    /\ stickyCalls' = IF ~handlerErr /\ err.kind # "nil"
                      THEN stickyCalls + 1
                      ELSE stickyCalls
    /\ UNCHANGED << input, data, syntaxErrs >>

\* Error(s): the parser reports a syntax error at the last token start.
Error ==
    /\ ~panicked
    /\ syntaxErrs < MaxSyntaxErrors
    /\ \E stop \in BOOLEAN : Becomes(addSourceError(L, "syntax error", stop))
    /\ syntaxErrs' = syntaxErrs + 1
    /\ UNCHANGED << input, data, stickyCalls >>

Next == Lex \/ Error

\* All byte strings of at most n bytes over the alphabet.
Inputs(alphabet, n) == UNION {[1..k -> alphabet] : k \in 0..n}

\* The general alphabet: newline, the comment characters, a quote, a letter,
\* punctuation, a dot, and the two bytes of U+00E9 (each of which alone is
\* not UTF-8).
Alphabet == {10, 47, 42, 34, 97, 59, 46, 195, 169}

\* The alphabet of control characters: NUL, the comment characters, a quote
\* and a letter.
ControlAlphabet == {0, 47, 42, 34, 97}

\* The alphabet of string literals: a quote, the backslash, x (a letter and
\* the hex escape), 1 (a decimal, octal and hex digit), newline and a slash.
StringAlphabet == {34, 92, 120, 49, 10, 47}

\* Inputs over the general, the string and the control alphabet, and short
\* inputs behind a byte order mark.
Init ==
    \E in \in Inputs(Alphabet, MaxLen) \cup Inputs(StringAlphabet, MaxStringLen)
               \cup Inputs(ControlAlphabet, MaxLen)
               \cup {utf8Bom \o s : s \in Inputs(Alphabet, MaxLen - 2)} :
        newLexer(in)

Spec == Init /\ [][Next]_vars

\* The pieces of the inputs about comments: a name, a semicolon, a newline,
\* a line comment with and without its newline, a block comment on one line
\* and on two.
Fragments ==
    { <<97>>, <<59>>, <<10>>, <<47, 47, 10>>, <<47, 47>>, <<47, 42, 42, 47>>,
      <<47, 42, 42, 10, 42, 47>> }

\* The concatenations of at most n fragments.
RECURSIVE Concatenations(_)
Concatenations(n) ==
    IF n = 0 THEN {<< >>}
    ELSE LET shorter == Concatenations(n - 1)
         IN  shorter \cup {s \o f : s \in shorter, f \in Fragments}

InitComments == \E in \in Concatenations(MaxFragments) : newLexer(in)

SpecComments == InitComments /\ [][Next]_vars

\* The concatenations of at most n of the fragments fs.
RECURSIVE ConcatenationsOf(_, _)
ConcatenationsOf(fs, n) ==
    IF n = 0 THEN {<< >>}
    ELSE LET shorter == ConcatenationsOf(fs, n - 1)
         IN  shorter \cup {s \o f : s \in shorter, f \in fs}

\* The pieces of the inputs about attribution: a name, a dot, a semicolon,
\* a newline, a line comment and a block comment.
AttributionFragments ==
    { <<97>>, <<CH_DOT>>, <<59>>, <<10>>, <<47, 47, 10>>, <<47, 42, 42, 47>> }

InitAttribution ==
    \E in \in ConcatenationsOf(AttributionFragments, MaxFragments) : newLexer(in)

SpecAttribution == InitAttribution /\ [][Next]_vars

\* Hexadecimal literals: 0x or 0X, nothing or 1, 1_ or a9, then a digit 0, F
\* or f repeated (0x1 and sixteen 0 is 2^64).
HexLiterals ==
    { <<CH_ZERO, x>> \o lead \o [i \in 1..k |-> d] :
        x \in {CH_LOWER_X, CH_UPPER_X},
        lead \in {<< >>, <<49>>, <<49, CH_UNDERSCORE>>, <<CH_LOWER_A, CH_NINE>>},
        d \in {CH_ZERO, CH_UPPER_F, CH_LOWER_F},
        k \in 0..MaxHexDigits }

\* Float literals: the digit 1 or 2, e, and an exponent of the digits 0, 3,
\* 8 and 9 (among them 1e308, 2e308, 1e309 and 1e9999).
FloatLiterals ==
    { <<m, CH_LOWER_E>> \o x :
        m \in {49, 50}, x \in Inputs({CH_ZERO, 51, 56, CH_NINE}, MaxExpDigits) }

\* What stands between the quotes: \xFF, \101, \7, \n, \u0041, \u00E9 and a.
EscapeTexts ==
    { <<CH_BACKSLASH, CH_LOWER_X, CH_UPPER_F, CH_UPPER_F>>,
      <<CH_BACKSLASH, 49, CH_ZERO, 49>>,
      <<CH_BACKSLASH, CH_SEVEN>>,
      <<CH_BACKSLASH, CH_LOWER_N>>,
      <<CH_BACKSLASH, CH_LOWER_U, CH_ZERO, CH_ZERO, 52, 49>>,
      <<CH_BACKSLASH, CH_LOWER_U, CH_ZERO, CH_ZERO, CH_UPPER_E, CH_NINE>>,
      <<CH_LOWER_A>> }

\* The concatenations of at most n of them.
RECURSIVE EscapeRuns(_)
EscapeRuns(n) ==
    IF n = 0 THEN {<< >>}
    ELSE LET shorter == EscapeRuns(n - 1)
         IN  shorter \cup {s \o f : s \in shorter, f \in EscapeTexts}

StringLiterals ==
    { <<CH_DQUOTE>> \o body \o <<CH_DQUOTE>> : body \in EscapeRuns(MaxEscapes) }

\* Integer literals: nothing or 0, a digit 1, 7 or 9 repeated, then nothing
\* or 8.
IntLiterals ==
    { lead \o [i \in 1..k |-> d] \o last :
        lead \in {<< >>, <<CH_ZERO>>},
        d \in {49, CH_SEVEN, CH_NINE},
        k \in 0..MaxIntDigits,
        last \in {<< >>, <<56>>} }

InitLiterals ==
    \E in \in HexLiterals \cup FloatLiterals \cup StringLiterals
                \cup IntLiterals :
        newLexer(in)

SpecLiterals == InitLiterals /\ [][Next]_vars

\* The alphabet of numbers: the digit 1, e, the signs, an underscore, a dot
\* and a semicolon.
NumberAlphabet == {49, CH_LOWER_E, CH_PLUS, CH_MINUS, CH_UNDERSCORE, CH_DOT, 59}

\* Numbers: the digit 0 or 1 and characters of the alphabet, and 0x1e+1.
NumberInputs ==
    { <<d>> \o s : d \in {CH_ZERO, 49}, s \in Inputs(NumberAlphabet, MaxNumberLen) }
        \cup { <<CH_ZERO, CH_LOWER_X, 49, CH_LOWER_E, CH_PLUS, 49>>,
               <<CH_ZERO, CH_LOWER_X, 49, CH_PLUS, 49>> }

InitNumbers == \E in \in NumberInputs : newLexer(in)

SpecNumbers == InitNumbers /\ [][Next]_vars

\* Strings of one escape: a quote, a backslash, one of x, u, U and q,
\* nothing or a sign or g, a digit 0, 1 or F repeated, and a quote.
HexEscapeInputs ==
    { <<CH_DQUOTE, CH_BACKSLASH, e>> \o sign \o [i \in 1..k |-> d]
          \o <<CH_DQUOTE>> :
        e \in {CH_LOWER_X, CH_LOWER_U, CH_UPPER_U, 113},
        sign \in {<< >>, <<CH_PLUS>>, <<CH_MINUS>>, <<103>>},
        d \in {CH_ZERO, 49, CH_UPPER_F},
        k \in 0..MaxEscapeDigits }

\* Strings of one octal escape: a quote, a backslash, characters of 0, 3, 4,
\* 7 and 8, and a quote or nothing.
OctalEscapeInputs ==
    { <<CH_DQUOTE, CH_BACKSLASH>> \o o \o q :
        o \in Inputs({CH_ZERO, 51, 52, CH_SEVEN, 56}, MaxOctalLen),
        q \in {<< >>, <<CH_DQUOTE>>} }

\* Strings of either quote: an opening quote and characters of the two
\* quotes, a letter, the backslash, the newline and NUL.
QuotedInputs ==
    { <<q>> \o t :
        q \in {CH_DQUOTE, CH_SQUOTE},
        t \in Inputs({CH_DQUOTE, CH_SQUOTE, CH_LOWER_A, CH_BACKSLASH, CH_LF,
                      CH_NUL}, MaxQuotedLen) }

InitEscapes ==
    \E in \in HexEscapeInputs \cup OctalEscapeInputs \cup QuotedInputs :
        newLexer(in)

SpecEscapes == InitEscapes /\ [][Next]_vars

\* Block comments: the opening and characters of the slash, the star, a
\* letter and the newline.
BlockCommentInputs ==
    { <<CH_SLASH, CH_STAR>> \o t :
        t \in Inputs({CH_SLASH, CH_STAR, CH_LOWER_A, CH_LF}, MaxBlockLen) }

InitBlockComments == \E in \in BlockCommentInputs : newLexer(in)

SpecBlockComments == InitBlockComments /\ [][Next]_vars

-----------------------------------------------------------------------------
(* Properties.                                                             *)

\* The token ids, and what the token table says about a token.
TokenIds == 0..(Len(tokens) - 1)

IsCommentToken(t) ==
    \/ HasPrefix(RawText(L, t), <<CH_SLASH, CH_SLASH>>)
    \/ HasPrefix(RawText(L, t), <<CH_SLASH, CH_STAR>>)

\* A zero-length token: the sentinel of the end of input.
IsSentinel(t) == tokens[t + 1].length = 0

\* A terminal that is no sentinel.
IsRealTerminal(t) == ~IsCommentToken(t) /\ ~IsSentinel(t)

\* The number of AddComment calls made for the comment t.
AttachCount(t) ==
    Cardinality({i \in 1..Len(attached) : attached[i].comment = t})

\* The byte at offset p lies in some token.
Covered(p) ==
    \E i \in 1..Len(tokens) :
        tokens[i].offset <= p /\ p < tokens[i].offset + tokens[i].length

\* The step is a call of Lex (a call of Error counts a syntax error).
LexStep == syntaxErrs' = syntaxErrs

\* C1: the lexer never panics: unreadRune never moves the cursor before the
\* mark, and mark <= pos <= len(data) in every reachable state.
C1_NoPanic == ~panicked /\ mark <= pos /\ pos <= Len(data)

\* A rune was unread in a token that does not start the input.
C1_Witness == unreads > 0 /\ mark > 0 /\ pos > mark /\ ~panicked

\* C2: once Lex has returned EOF, every comment token is attached to exactly
\* one terminal.  The claim is stated for its plainest case, the end of the
\* input reached with a handler that never stops lexing.
C2_EveryCommentAttachedOnce ==
    (ret.kind = "EOF" /\ ~handlerErr)
        => \A t \in TokenIds : IsCommentToken(t) => AttachCount(t) = 1

C4_StrictlyIncreasingOffsets ==
    \A i, j \in 1..Len(tokens) :
        i < j => tokens[i].offset < tokens[j].offset

\* C4, amended: ids are dense (every token id in use is an index of the
\* table) and of any two tokens the one with the larger id starts at a
\* strictly larger offset, unless both are zero-length sentinels at the end
\* of the input, which a Lex call after the end of input adds again.
C4_IncreasingOffsetsButSentinels ==
    /\ \A i, j \in 1..Len(tokens) :
          i < j => \/ tokens[i].offset < tokens[j].offset
                   \/ /\ tokens[i].offset = Len(data)
                      /\ tokens[j].offset = Len(data)
                      /\ tokens[i].length = 0
                      /\ tokens[j].length = 0
    /\ prevSym.kind # "nil" => prevSym.tok \in TokenIds
    /\ eof # 0 - 1 => eof = Len(tokens) - 1
    /\ \A i \in 1..Len(attached) :
          attached[i].comment \in TokenIds /\ attached[i].owner \in TokenIds

\* Lex was called again after the end of input was returned, behind a real
\* token: there are two sentinels.
C4_Witness ==
    /\ Len(tokens) >= 3
    /\ IsSentinel(Len(tokens) - 1)
    /\ IsSentinel(Len(tokens) - 2)
    /\ ~IsSentinel(Len(tokens) - 3)

\* C5: every newline the cursor has consumed is registered as a line start,
\* the offset just past it, exactly once.
C5_EveryNewlineRegistered ==
    \A p \in 0..(pos - 1) :
        data[p + 1] = CH_LF
            => Cardinality({i \in 1..Len(lines) : lines[i] = p + 1}) = 1

\* C6: the line starts, 0 first, are strictly increasing: no newline is
\* registered twice.
C6_LineStartsIncrease ==
    /\ lines[1] = 0
    /\ \A i, j \in 1..Len(lines) : i < j => lines[i] < lines[j]

\* A block comment was lexed in which a newline was read ahead after a '*'.
C6_Witness ==
    /\ Len(lines) >= 2
    /\ \E t \in TokenIds :
          /\ HasPrefix(RawText(L, t), <<CH_SLASH, CH_STAR>>)
          /\ \E i \in 2..(Len(RawText(L, t)) - 1) :
                RawText(L, t)[i] = CH_STAR /\ RawText(L, t)[i + 1] = CH_LF

\* C7: every Lex call that does not return EOF advances the cursor by at
\* least one byte or makes the handler's sticky error non-nil.
C7_LexMakesProgress ==
    [][(LexStep /\ ret'.kind # "EOF")
          => (pos' > pos \/ (handlerErr' /\ ~handlerErr))]_vars

\* C8: a Lex call entered with the handler's error set returns EOF and
\* changes nothing else.
C8_StoppedLexChangesNothing ==
    [][(LexStep /\ handlerErr)
          => /\ ret'.kind = "EOF"
             /\ UNCHANGED << pos, mark, err, lines, tokens, attached, comments,
                             prevSym, prevOffset, eof, handlerErr, diags,
                             lval >>]_vars

\* Lex returned EOF because the handler had stopped, with comments pending
\* and no sentinel made.
C8_Witness ==
    handlerErr /\ ret.kind = "EOF" /\ comments # << >> /\ eof = 0 - 1

\* C9, as stated: no comment is attached to the sentinel of the end of input
\* when a real terminal precedes the sentinel.
C9_NoCommentOnSentinel ==
    \A i \in 1..Len(attached) :
        IsSentinel(attached[i].owner)
            => ~\E u \in TokenIds : u < attached[i].owner /\ IsRealTerminal(u)

\* The lines of tokens in the state after the step.
After == [lines |-> lines', tokens |-> tokens']

\* The size of the first group of the comments c0, c0 + 1, ..., last after
\* the previous terminal p: 1 if c0 starts on p's last line or is a block
\* comment, else the number of // comments up to the first comment that is
\* followed by a block comment or by a gap of more than one line.
C9_GroupSize(p, c0, last) ==
    IF TokenStartLine(After, c0) = TokenEndLine(After, p)
          \/ ~IsSingleLineStyle(After, c0)
    THEN 1
    ELSE LET ends ==
                 {c \in c0..last :
                     \/ c = last
                     \/ ~IsSingleLineStyle(After, c + 1)
                     \/ TokenStartLine(After, c + 1)
                           > TokenEndLine(After, c) + 1}
             first == CHOOSE c \in ends : \A d \in ends : c <= d
         IN  first - c0 + 1

\* C9, amended: at the end of input Lex makes a zero-length sentinel; when a
\* real terminal p precedes it and comments are pending, the first comment
\* group is attached to p if the end of input is on a later line than the
\* end of p and the first comment starts at most one line after the end of
\* p; all other pending comments, and all of them otherwise, are attached to
\* the sentinel.
C9_SentinelAttribution ==
    [][(LexStep /\ eof' # eof /\ prevSym.kind # "nil"
           /\ Len(tokens') > Len(tokens) + 1)
          => LET p == prevSym.tok
                 c0 == Len(tokens)
                 s == Len(tokens') - 1
                 n == s - c0
                 considered ==
                     /\ TokenStartLine(After, s) > TokenEndLine(After, p)
                     /\ TokenStartLine(After, c0) - TokenEndLine(After, p) <= 1
                 k == IF considered THEN C9_GroupSize(p, c0, s - 1) ELSE 0
             IN  /\ eof' = s
                 /\ tokens'[s + 1] = [offset |-> Len(data), length |-> 0]
                 /\ Len(attached') = Len(attached) + n
                 /\ \A i \in 1..n :
                       attached'[Len(attached) + i] =
                           [comment |-> c0 + i - 1,
                            owner |-> IF i <= k THEN p ELSE s]]_vars

\* The end of input was reached with two comments pending behind a real
\* terminal: the first went to the terminal, the second to the sentinel.
C9_Witness ==
    /\ eof # 0 - 1
    /\ \E i \in 1..(Len(attached) - 1) :
          /\ attached[i].owner < attached[i].comment
          /\ IsRealTerminal(attached[i].owner)
          /\ attached[i + 1].comment = attached[i].comment + 1
          /\ attached[i + 1].owner = eof

\* C10: a '/' at the start of a token that neither '/' nor '*' follows is
\* returned as the rune '/', without a diagnostic.
C10_SlashIsRune ==
    [][(LexStep /\ ~handlerErr /\ mark' < Len(data)
           /\ data[mark' + 1] = CH_SLASH
           /\ (mark' + 1 = Len(data)
                  \/ data[mark' + 2] \notin {CH_SLASH, CH_STAR}))
          => (ret' = Ret("RUNE", CH_SLASH) /\ diags' = diags)]_vars

\* C11: a line comment token never includes the newline that ends the
\* comment: no token that begins with // contains a newline.
C11_LineCommentExcludesNewline ==
    \A t \in TokenIds :
        IsSingleLineStyle(L, t) => ~Contains(RawText(L, t), CH_LF)

\* C12: when the input begins with the byte order mark, no token and no
\* diagnostic lies in the mark: every recorded offset, taken as an index
\* into the original input, is at least 3.
C12_OffsetsIndexOriginalInput ==
    (Len(input) >= 3 /\ SubSeq(input, 1, 3) = utf8Bom)
        => /\ \A i \in 1..Len(tokens) : tokens[i].offset >= 3
           /\ \A i \in 1..Len(diags) : diags[i].offset >= 3

-----------------------------------------------------------------------------
(* Literals.                                                               *)

\* The step is the first call of Lex, before any diagnostic.
FirstLex == ret.kind = "none" /\ diags = << >> /\ LexStep

\* The input is 0x or 0X followed by hex digits and underscores only.
IsHexLexeme(s) ==
    /\ Len(s) >= 2
    /\ s[1] = CH_ZERO
    /\ s[2] \in {CH_LOWER_X, CH_UPPER_X}
    /\ \A i \in 3..Len(s) : IsHexDigit(s[i]) \/ s[i] = CH_UNDERSCORE

\* It has a digit and no underscore.
IsPlainHex(s) ==
    IsHexLexeme(s) /\ Len(s) >= 3 /\ \A i \in 3..Len(s) : IsHexDigit(s[i])

\* The values of the digits after the prefix, without leading zeros.
SignificantHex(s) ==
    StripLeadingZeros([i \in 1..(Len(s) - 2) |-> DigitVal(s[i + 2])])

\* The value of at most sixteen hex digits by position: each 16-bit limb is
\* four of the digits, the least significant limb first.
HexLimbs(sig) ==
    LET pad == 16 - Len(sig)
        p == [i \in 1..16 |-> IF i <= pad THEN 0 ELSE sig[i - pad]]
    IN  [j \in 1..4 |->
            p[17 - 4 * j] * 4096 + p[18 - 4 * j] * 256
                + p[19 - 4 * j] * 16 + p[20 - 4 * j]]

\* The first call of Lex returned an unsigned integer literal of value v
\* over the whole input and reported nothing.
IntLiteralLexed(v) ==
    /\ ret' = Ret("_INT_LIT", 0)
    /\ lval'.kind = "uint" /\ lval'.val = v
    /\ tokens' = <<[offset |-> 0, length |-> Len(data)]>>
    /\ diags' = << >>

\* The first call of Lex returned _ERROR and reported msg at the lexeme.
LiteralRejected(msg) ==
    /\ ret' = Ret("_ERROR", 0)
    /\ diags' = <<[offset |-> 0, msg |-> msg]>>

\* C13 as stated: a hex literal (digits, possibly separated by underscores)
\* whose value fits in 64 bits is an unsigned integer literal of that value;
\* one whose value exceeds 2^64 - 1 is rejected with "value out of range for
\* integer".
C13_HexOutOfRangeForInteger ==
    [][(FirstLex /\ IsPlainHex(data))
          => IF Len(SignificantHex(data)) <= 16
             THEN IntLiteralLexed(HexLimbs(SignificantHex(data)))
             ELSE LiteralRejected("value out of range for integer")]_vars

\* C13 amended: a hex literal of hex digits whose value fits in 64 bits is an
\* unsigned integer literal of that value; one whose value exceeds 2^64 - 1
\* is rejected with "value out of range for hexadecimal integer"; one with
\* an underscore or without a digit is rejected with "invalid syntax in
\* hexadecimal integer value".
C13_HexLiteral ==
    [][(FirstLex /\ IsHexLexeme(data))
          => IF ~IsPlainHex(data)
             THEN LiteralRejected("invalid syntax in hexadecimal integer value")
             ELSE IF Len(SignificantHex(data)) <= 16
             THEN IntLiteralLexed(HexLimbs(SignificantHex(data)))
             ELSE LiteralRejected("value out of range for hexadecimal integer")]_vars

\* 0xFFFFFFFFFFFFFFFF was lexed as 2^64 - 1.
C13_Witness ==
    /\ data = <<CH_ZERO, CH_LOWER_X>> \o [i \in 1..16 |-> CH_UPPER_F]
    /\ ret = Ret("_INT_LIT", 0)
    /\ lval.val = <<65535, 65535, 65535, 65535>>

\* The input is one digit from 1 to 9, e, and decimal digits.
IsExpLiteral(s) ==
    /\ Len(s) >= 3
    /\ s[1] > CH_ZERO /\ s[1] <= CH_NINE
    /\ s[2] = CH_LOWER_E
    /\ \A i \in 3..Len(s) : IsDigit(s[i])

\* The number the decimal digits s[i..] denote after the value v.
RECURSIVE DecimalFrom(_, _, _)
DecimalFrom(s, i, v) ==
    IF i > Len(s) THEN v ELSE DecimalFrom(s, i + 1, v * 10 + (s[i] - CH_ZERO))

\* m * 10^x overflows the 64-bit IEEE range: the largest finite value is
\* 1.797...e308, and 1e308 is finite.
ExpLiteralOverflows(s) ==
    LET x == DecimalFrom(s, 3, 0)
    IN  x >= 309 \/ (x = 308 /\ s[1] >= 50)

PosInf == <<1>>

\* C14: a float literal m e x whose value overflows the 64-bit IEEE range
\* (such as 1e9999) is returned as a float literal equal to +Inf over the
\* whole input and nothing is reported; one that does not overflow is a
\* finite float literal.
C14_FloatOverflowIsInf ==
    [][(FirstLex /\ IsExpLiteral(data))
          => /\ ret' = Ret("_FLOAT_LIT", 0)
             /\ lval'.kind = "float"
             /\ (lval'.val = PosInf) = ExpLiteralOverflows(data)
             /\ tokens' = <<[offset |-> 0, length |-> Len(data)]>>
             /\ diags' = << >>]_vars

\* 1e9999 was lexed as +Inf without a diagnostic.
C14_Witness ==
    /\ data = <<49, CH_LOWER_E, CH_NINE, CH_NINE, CH_NINE, CH_NINE>>
    /\ ret = Ret("_FLOAT_LIT", 0)
    /\ lval.val = PosInf
    /\ diags = << >>

\* The bytes each escape stands for: \xFF is FF, \101 is 41, \7 is 07, \n is
\* 0A, \u0041 is 41, \u00E9 is the UTF-8 encoding C3 A9, and a is itself.
EscapeBytes ==
    { [text |-> <<CH_BACKSLASH, CH_LOWER_X, CH_UPPER_F, CH_UPPER_F>>,
       bytes |-> <<255>>],
      [text |-> <<CH_BACKSLASH, 49, CH_ZERO, 49>>, bytes |-> <<65>>],
      [text |-> <<CH_BACKSLASH, CH_SEVEN>>, bytes |-> <<7>>],
      [text |-> <<CH_BACKSLASH, CH_LOWER_N>>, bytes |-> <<10>>],
      [text |-> <<CH_BACKSLASH, CH_LOWER_U, CH_ZERO, CH_ZERO, 52, 49>>,
       bytes |-> <<65>>],
      [text |-> <<CH_BACKSLASH, CH_LOWER_U, CH_ZERO, CH_ZERO, CH_UPPER_E, CH_NINE>>,
       bytes |-> <<195, 169>>],
      [text |-> <<CH_LOWER_A>>, bytes |-> <<97>>] }

\* The escapes whose text stands in s at index i, before the last byte of s.
EscapesAt(s, i) ==
    { e \in EscapeBytes :
        /\ i + Len(e.text) <= Len(s)
        /\ SubSeq(s, i, i + Len(e.text) - 1) = e.text }

\* The bytes of the escapes of s from index i up to the closing quote, added
\* to out in order; ok is FALSE when s is not made of the escapes.
RECURSIVE DecodeFrom(_, _, _)
DecodeFrom(s, i, out) ==
    IF i >= Len(s) THEN [ok |-> i = Len(s) /\ s[i] = CH_DQUOTE, bytes |-> out]
    ELSE IF EscapesAt(s, i) = {} THEN [ok |-> FALSE, bytes |-> << >>]
    ELSE LET e == CHOOSE e \in EscapesAt(s, i) : TRUE
         IN  DecodeFrom(s, i + Len(e.text), out \o e.bytes)

\* The input is a double-quoted string of the escapes.
IsEscapeString(s) ==
    Len(s) >= 2 /\ s[1] = CH_DQUOTE /\ DecodeFrom(s, 2, << >>).ok

\* C15: a string literal is decoded to the bytes of its escapes in order
\* (\xHH one byte, an octal escape one byte, \n one byte, \uHHHH the UTF-8
\* encoding, a plain character itself), as one string token over the whole
\* literal, and nothing is reported.
C15_StringDecoding ==
    [][(FirstLex /\ IsEscapeString(data))
          => /\ ret' = Ret("_STRING_LIT", 0)
             /\ lval'.kind = "string"
             /\ lval'.val = DecodeFrom(data, 2, << >>).bytes
             /\ tokens' = <<[offset |-> 0, length |-> Len(data)]>>
             /\ diags' = << >>]_vars

\* "\xFF\101\n\u0041" was lexed as the bytes FF 41 0A 41.
C15_Witness ==
    /\ data = <<CH_DQUOTE, CH_BACKSLASH, CH_LOWER_X, CH_UPPER_F, CH_UPPER_F,
                CH_BACKSLASH, 49, CH_ZERO, 49, CH_BACKSLASH, CH_LOWER_N,
                CH_BACKSLASH, CH_LOWER_U, CH_ZERO, CH_ZERO, 52, 49, CH_DQUOTE>>
    /\ ret = Ret("_STRING_LIT", 0)
    /\ lval.val = <<255, 65, 10, 65>>

-----------------------------------------------------------------------------
(* The rune reader's error, the empty input.                               *)

\* C16: the error of the rune reader is sticky.  A UTF-8 error names the
\* offset of the cursor, where a byte stands that is no UTF-8, and EOF is
\* kept at the end of the input; once the reader has its error, no step
\* changes the error or the cursor, and a Lex call that reads returns what
\* the error makes of it again: EOF, or _ERROR with "invalid UTF8".
C16_ReaderErrorSticky ==
    /\ [](err.kind = "UTF8"
             => (err.offset = pos /\ pos < Len(data)
                    /\ DecodeRune(pos).r = RuneError))
    /\ [](err.kind = "EOF" => pos = Len(data))
    /\ [][err.kind # "nil"
             => /\ err' = err
                /\ pos' = pos
                /\ ((LexStep /\ ~handlerErr)
                      => IF err.kind = "EOF"
                         THEN ret' = Ret("EOF", 0)
                         ELSE /\ ret' = Ret("_ERROR", 0)
                              /\ diags' = Append(diags,
                                     [offset |-> pos, msg |-> "invalid UTF8"]))]_vars

\* Lex was called again after a UTF-8 error behind a token, and read.
C16_Witness ==
    err.kind = "UTF8" /\ err.offset > 0 /\ stickyCalls > 0 /\ ret.kind = "_ERROR"

\* C17: on the empty input the first call of Lex returns EOF and reports
\* nothing; the one token it makes is the zero-length sentinel at offset 0,
\* which is the rune node 0 handed to the parser, and no comment is
\* attached.
C17_EmptyInput ==
    [][(LexStep /\ input = << >> /\ ret.kind = "none" /\ ~handlerErr)
          => /\ ret' = Ret("EOF", 0)
             /\ diags' = diags
             /\ ~handlerErr'
             /\ tokens' = <<[offset |-> 0, length |-> 0]>>
             /\ eof' = 0
             /\ lval' = NewNode("rune", 0, 0, << >>)
             /\ attached' = << >>
             /\ comments' = << >>]_vars

\* The empty input was lexed once.
C17_Witness ==
    /\ input = << >>
    /\ ret = Ret("EOF", 0)
    /\ diags = << >>
    /\ Len(tokens) = 1

-----------------------------------------------------------------------------
(* Comment attribution.                                                    *)

\* The step is a call of Lex that made k comment tokens and then the token
\* of the terminal it returned.
TerminalAfterComments(k) ==
    /\ LexStep
    /\ Len(tokens') = Len(tokens) + k + 1
    /\ lval'.kind \notin {"nil", "err"}
    /\ lval'.tok = Len(tokens') - 1
    /\ ret'.kind # "_ERROR"

\* C18: when the one pending comment is a // comment on the line just above
\* the terminal n returned, not on the last line of the previous terminal,
\* and n is no punctuation rune, the comment is attached to n and to nothing
\* else.
C18_LineCommentAboveIsLeading ==
    [][LET c == Len(tokens)
           n == Len(tokens) + 1
       IN  (/\ TerminalAfterComments(1)
            /\ IsSingleLineStyle(After, c)
            /\ TokenStartLine(After, n) = TokenStartLine(After, c) + 1
            /\ prevSym.kind # "nil"
                  => TokenStartLine(After, c) # TokenEndLine(After, prevSym.tok)
            /\ ~(lval'.kind = "rune" /\ lval'.rune # CH_DOT))
               => attached' = Append(attached, [comment |-> c, owner |-> n])]_vars

\* A // comment on the line after a terminal and just above the next one was
\* attached to the next one.
C18_Witness ==
    \E i \in 1..Len(attached) :
        LET c == attached[i].comment
            n == attached[i].owner
        IN  /\ n = c + 1
            /\ c >= 1
            /\ IsRealTerminal(c - 1)
            /\ IsRealTerminal(n)
            /\ IsSingleLineStyle(L, c)
            /\ TokenStartLine(L, c) = TokenEndLine(L, c - 1) + 1
            /\ TokenStartLine(L, n) = TokenStartLine(L, c) + 1

\* C20: when a Lex call returns a terminal n after k pending comments, the
\* comments are attached in order, the first j of them to the previous
\* terminal p and the rest to n, for some j from 0 to k; and j is 0 when
\* there is no p, when k is 0, or unless n starts on a later line than p
\* ends and the first comment starts at most one line after p ends.
C20_PrefixToPrevious ==
    [][LET c0 == Len(tokens)
           k == Len(tokens') - Len(tokens) - 1
           n == Len(tokens') - 1
           p == prevSym.tok
           considered ==
               /\ prevSym.kind # "nil"
               /\ k > 0
               /\ TokenStartLine(After, n) > TokenEndLine(After, p)
               /\ TokenStartLine(After, c0) - TokenEndLine(After, p) <= 1
       IN  (k >= 0 /\ TerminalAfterComments(k))
              => \E j \in 0..k :
                    /\ ~considered => j = 0
                    /\ attached' = attached \o
                          [i \in 1..k |->
                              [comment |-> c0 + i - 1,
                               owner |-> IF i <= j THEN p ELSE n]]]_vars

\* Of two pending comments the first went to the previous terminal and the
\* second to the terminal returned, which is no sentinel.
C20_Witness ==
    \E i \in 1..(Len(attached) - 1) :
        /\ attached[i].owner < attached[i].comment
        /\ attached[i + 1].comment = attached[i].comment + 1
        /\ attached[i + 1].owner = attached[i].comment + 2
        /\ IsRealTerminal(attached[i + 1].owner)

\* The number of comments the step attached to the token p.
AttachedTo(p) ==
    Cardinality({i \in (Len(attached) + 1)..Len(attached') :
                    attached'[i].owner = p})

\* Re-attribution is considered in the step: there is a previous terminal, a
\* comment is pending, the terminal made starts on a later line than the
\* previous one ends and the first comment starts at most one line after
\* it.
Considered ==
    /\ prevSym.kind # "nil"
    /\ Len(tokens') - Len(tokens) - 1 >= 1
    /\ TerminalAfterComments(Len(tokens') - Len(tokens) - 1)
    /\ TokenStartLine(After, Len(tokens') - 1)
          > TokenEndLine(After, prevSym.tok)
    /\ TokenStartLine(After, Len(tokens)) - TokenEndLine(After, prevSym.tok) <= 1

-----------------------------------------------------------------------------
(* Errors.                                                                 *)

\* The step is a call of Lex, made while the handler has no error, that
\* returned _ERROR.
LexFailed == LexStep /\ ~handlerErr /\ ret'.kind = "_ERROR"

\* C23: a Lex call that returns _ERROR hands exactly one diagnostic to the
\* handler, makes no token but those of the comments it passed, attaches no
\* comment and leaves the previous terminal as it was.
C23_ErrorKeepsPrevious ==
    [][LexFailed
          => /\ Len(diags') = Len(diags) + 1
             /\ SubSeq(diags', 1, Len(diags)) = diags
             /\ lval'.kind = "err"
             /\ \A t \in Len(tokens)..(Len(tokens') - 1) :
                   \/ HasPrefix(RawText(After, t), <<CH_SLASH, CH_SLASH>>)
                   \/ HasPrefix(RawText(After, t), <<CH_SLASH, CH_STAR>>)
             /\ attached' = attached
             /\ prevSym' = prevSym]_vars

\* Lex returned _ERROR behind a terminal, which is still the previous one.
C23_Witness ==
    /\ ret.kind = "_ERROR"
    /\ Len(diags) = 1
    /\ prevSym.kind # "nil"
    /\ prevSym.tok = Len(tokens) - 1
    /\ pos > mark

-----------------------------------------------------------------------------
(* Numbers.                                                                *)

\* The input is decimal digits only.
IsDigitsOnly(s) == s # << >> /\ \A i \in 1..Len(s) : IsDigit(s[i])

\* The input starts with 0 and has the digit 8 or 9, which base 8 has not.
HasInvalidOctalDigit(s) ==
    s[1] = CH_ZERO /\ \E i \in 1..Len(s) : s[i] > CH_SEVEN

\* The digits of 2^64 - 1.
MaxUint64Digits ==
    <<1, 8, 4, 4, 6, 7, 4, 4, 0, 7, 3, 7, 0, 9, 5, 5, 1, 6, 1, 5>>

\* The value of the digits, read in base 8 after a leading 0 and in base 10
\* otherwise, is at most 2^64 - 1.
IntegerFits(s) ==
    LET sig == StripLeadingZeros([i \in 1..Len(s) |-> s[i] - CH_ZERO])
    IN  IF s[1] = CH_ZERO
        THEN Len(sig) <= 21 \/ (Len(sig) = 22 /\ sig[1] = 1)
        ELSE Len(sig) < 20 \/ (Len(sig) = 20 /\ ~FracLess(MaxUint64Digits, sig))

\* C24: a literal of digits only is an integer literal when its value, in
\* base 8 after a leading 0 and in base 10 otherwise, fits in 64 bits, and a
\* float literal without a diagnostic when the value overflows; a literal
\* with a digit its base has not (08) is rejected.
C24_IntegerLiteral ==
    [][(FirstLex /\ IsDigitsOnly(data))
          => IF HasInvalidOctalDigit(data)
             THEN LiteralRejected("invalid syntax in octal integer value")
             ELSE /\ ret' = Ret(IF IntegerFits(data) THEN "_INT_LIT"
                                                     ELSE "_FLOAT_LIT", 0)
                  /\ lval'.kind = IF IntegerFits(data) THEN "uint" ELSE "float"
                  /\ tokens' = <<[offset |-> 0, length |-> Len(data)]>>
                  /\ diags' = << >>]_vars

\* A character of a number: a digit, a letter, '.', '_', '+' or '-'.
IsNumberChar(c) ==
    IsDigit(c) \/ IsLower(c) \/ IsUpper(c)
        \/ c \in {CH_DOT, CH_UNDERSCORE, CH_PLUS, CH_MINUS}

\* The length of the run of a number from the start of s that has i
\* characters so far: a sign is taken only right after e or E.
RECURSIVE NumberRun(_, _)
NumberRun(s, i) ==
    IF i >= Len(s) \/ ~IsNumberChar(s[i + 1]) THEN i
    ELSE IF s[i + 1] \in {CH_PLUS, CH_MINUS}
            /\ s[i] \notin {CH_LOWER_E, CH_UPPER_E} THEN i
    ELSE NumberRun(s, i + 1)

\* The run is a float lexeme: no hex prefix, and a '.', an e or an E.
IsFloatLexeme(t) ==
    /\ ~HasPrefix(t, <<CH_ZERO, CH_LOWER_X>>)
    /\ ~HasPrefix(t, <<CH_ZERO, CH_UPPER_X>>)
    /\ \E i \in 1..Len(t) : t[i] \in {CH_DOT, CH_LOWER_E, CH_UPPER_E}

\* C25: the lexeme of a number is the longest run of digits, letters, '.',
\* '_', '+' and '-' from its first digit in which a sign stands only right
\* after e or E, in hex literals too; the cursor stops at the end of the
\* run, the token of a literal spans the run, and a float lexeme with an
\* underscore is rejected as invalid syntax.
C25_NumberRun ==
    [][(FirstLex /\ data # << >> /\ IsDigit(data[1]))
          => LET run == NumberRun(data, 1)
                 lexeme == SubSeq(data, 1, run)
             IN  /\ mark' = 0
                 /\ pos' = run
                 /\ ret'.kind \in {"_INT_LIT", "_FLOAT_LIT", "_ERROR"}
                 /\ ret'.kind # "_ERROR"
                       => tokens' = <<[offset |-> 0, length |-> run]>>
                 /\ (IsFloatLexeme(lexeme) /\ Contains(lexeme, CH_UNDERSCORE))
                       => LiteralRejected("invalid syntax in float value")]_vars

\* 0x1e+1 was scanned as one lexeme.
C25_Witness ==
    /\ data = <<CH_ZERO, CH_LOWER_X, 49, CH_LOWER_E, CH_PLUS, 49>>
    /\ ret.kind # "none"
    /\ mark = 0
    /\ pos = 6

-----------------------------------------------------------------------------
(* Escapes.                                                                *)

\* The input is a double quote, a backslash and more.
IsEscapeInput(s) ==
    Len(s) >= 3 /\ s[1] = CH_DQUOTE /\ s[2] = CH_BACKSLASH

\* The characters of the escape \x, \u or \U.
EscapeChars == {CH_LOWER_X, CH_UPPER_X, CH_LOWER_U, CH_UPPER_U}

\* The indices of s that the escape at s[3] takes as digits: after \x the
\* next character and the one after it if it is a hex digit, after \u four
\* characters and after \U eight.
DigitIndices(s) ==
    IF s[3] = CH_LOWER_U THEN 4..7
    ELSE IF s[3] = CH_UPPER_U THEN 4..11
    ELSE IF Len(s) >= 5 /\ IsHexDigit(s[5]) THEN 4..5
    ELSE 4..4

\* Lex returned _ERROR with one diagnostic and made no token.
StringRejected ==
    /\ ret' = Ret("_ERROR", 0)
    /\ Len(diags') = 1
    /\ tokens' = << >>

\* C26: a string whose escape \x, \u or \U takes a character that is no hex
\* digit (a sign, say) as one of its digits, whose \U escape has a value
\* above 0x10FFFF, or whose escape character is none of the listed ones, is
\* rejected and no string token is made.
C26_EscapeDigitsAreHex ==
    [][(FirstLex /\ IsEscapeInput(data))
          => /\ (/\ data[3] \in EscapeChars
                 /\ \E i \in DigitIndices(data) :
                       i <= Len(data) /\ ~IsHexDigit(data[i]))
                   => StringRejected
             /\ (/\ data[3] = CH_UPPER_U
                 /\ Len(data) >= 11
                 /\ \A i \in 4..11 : IsHexDigit(data[i])
                 /\ \/ data[4] # CH_ZERO
                    \/ data[5] # CH_ZERO
                    \/ DigitVal(data[6]) > 1)
                   => StringRejected
             /\ (data[3] \notin EscapeChars /\ ~IsOctalDigit(data[3])
                    /\ SimpleEscape(data[3]) < 0)
                   => StringRejected]_vars

\* The input is a string that starts with an octal escape, followed by
\* digits and double quotes only.
IsOctalEscapeInput(s) ==
    /\ IsEscapeInput(s)
    /\ IsOctalDigit(s[3])
    /\ \A i \in 4..Len(s) : IsDigit(s[i]) \/ s[i] = CH_DQUOTE

\* The index of the last digit of the longest run of one to three octal
\* digits that starts at index 3.
OctalRunEnd(s) ==
    IF Len(s) >= 4 /\ IsOctalDigit(s[4])
    THEN IF Len(s) >= 5 /\ IsOctalDigit(s[5]) THEN 5 ELSE 4
    ELSE 3

\* The value of the digits s[3..e] in base 8.
RECURSIVE OctalRunValue(_, _)
OctalRunValue(s, e) ==
    IF e < 3 THEN 0 ELSE 8 * OctalRunValue(s, e - 1) + (s[e] - CH_ZERO)

\* The index of the first double quote from index i on, 0 if there is none.
RECURSIVE ClosingQuote(_, _)
ClosingQuote(s, i) ==
    IF i > Len(s) THEN 0
    ELSE IF s[i] = CH_DQUOTE THEN i
    ELSE ClosingQuote(s, i + 1)

\* C27: an octal escape takes the longest run of one to three octal digits
\* and leaves the character after the run unread, so that it is content of
\* the string (or its closing quote); the run is one byte of the string, and
\* a run whose value is above 0xFF is rejected with "octal escape is out
\* range" and no token.
C27_OctalEscape ==
    [][(FirstLex /\ IsOctalEscapeInput(data))
          => LET e == OctalRunEnd(data)
                 v == OctalRunValue(data, e)
                 q == ClosingQuote(data, e + 1)
             IN  IF v > 255
                 THEN /\ LiteralRejected("octal escape is out range")
                      /\ tokens' = << >>
                 ELSE q # 0
                        => /\ ret' = Ret("_STRING_LIT", 0)
                           /\ lval'.kind = "string"
                           /\ lval'.val = <<v>> \o SubSeq(data, e + 1, q - 1)
                           /\ tokens' = <<[offset |-> 0, length |-> q]>>
                           /\ diags' = << >>]_vars

\* "\0773" was lexed as the bytes 3F 33: the escape took 077 and left the 3.
C27_Witness ==
    /\ data = <<CH_DQUOTE, CH_BACKSLASH, CH_ZERO, CH_SEVEN, CH_SEVEN, 51,
                CH_DQUOTE>>
    /\ ret = Ret("_STRING_LIT", 0)
    /\ lval.val = <<63, 51>>
    /\ tokens = <<[offset |-> 0, length |-> 7]>>

\* The input is a quote followed by characters of the two quotes, a letter,
\* the backslash, the newline and NUL.
IsQuotedInput(s) ==
    /\ Len(s) >= 1
    /\ s[1] \in {CH_DQUOTE, CH_SQUOTE}
    /\ \A i \in 2..Len(s) :
          s[i] \in {CH_DQUOTE, CH_SQUOTE, CH_LOWER_A, CH_BACKSLASH, CH_LF,
                    CH_NUL}

\* How the string opened by s[1] ends, reading from index i: at the first
\* unescaped s[1] ("closed", at its index), at a raw newline, at a raw NUL,
\* at the end of the input, or at a backslash that no escape character
\* follows.
RECURSIVE StringEnd(_, _)
StringEnd(s, i) ==
    IF i > Len(s) THEN [kind |-> "eof", at |-> i]
    ELSE IF s[i] = CH_LF THEN [kind |-> "newline", at |-> i]
    ELSE IF s[i] = s[1] THEN [kind |-> "closed", at |-> i]
    ELSE IF s[i] = CH_NUL THEN [kind |-> "nul", at |-> i]
    ELSE IF s[i] # CH_BACKSLASH THEN StringEnd(s, i + 1)
    ELSE IF i + 1 > Len(s) \/ s[i + 1] \in {CH_LF, CH_NUL}
         THEN [kind |-> "escape", at |-> i + 1]
    ELSE StringEnd(s, i + 2)

\* C28: a string ends at the first unescaped quote of the kind that opened
\* it, the other quote being content; a raw newline, a raw NUL or the end of
\* the input before that quote makes Lex return _ERROR with one diagnostic
\* and no string token.
C28_StringTermination ==
    [][(FirstLex /\ IsQuotedInput(data))
          => LET e == StringEnd(data, 2)
             IN  /\ e.kind = "closed"
                    => /\ ret' = Ret("_STRING_LIT", 0)
                       /\ lval'.kind = "string"
                       /\ tokens' = <<[offset |-> 0, length |-> e.at]>>
                       /\ diags' = << >>
                 /\ e.kind = "newline"
                    => /\ LiteralRejected(
                            "encountered end-of-line before end of string literal")
                       /\ tokens' = << >>
                 /\ e.kind = "nul"
                    => /\ LiteralRejected(
                            "null character ('\\0') not allowed in string literal")
                       /\ tokens' = << >>
                 /\ e.kind = "eof"
                    => /\ LiteralRejected("unexpected EOF")
                       /\ tokens' = << >>
                 /\ e.kind = "escape" => StringRejected]_vars

\* 'a"' was lexed as one string of the bytes 61 22: the double quote did not
\* end the string the single quote opened.
C28_Witness ==
    /\ data = <<CH_SQUOTE, CH_LOWER_A, CH_DQUOTE, CH_SQUOTE>>
    /\ ret = Ret("_STRING_LIT", 0)
    /\ lval.val = <<CH_LOWER_A, CH_DQUOTE>>
    /\ tokens = <<[offset |-> 0, length |-> 4]>>

-----------------------------------------------------------------------------
(* Block comments.                                                         *)

\* The input opens a block comment and has no NUL and no byte above ASCII.
IsBlockCommentInput(s) ==
    /\ Len(s) >= 2
    /\ s[1] = CH_SLASH /\ s[2] = CH_STAR
    /\ \A i \in 3..Len(s) : s[i] > 0 /\ s[i] < 128

\* The index of the slash of the first star-slash from index i on whose star
\* stands behind the opening, 0 if there is none.
RECURSIVE BlockCommentClose(_, _)
BlockCommentClose(s, i) ==
    IF i > Len(s) THEN 0
    ELSE IF i >= 4 /\ s[i - 1] = CH_STAR /\ s[i] = CH_SLASH THEN i
    ELSE BlockCommentClose(s, i + 1)

\* C29: a block comment ends at the first star-slash whose star stands
\* behind the opening (the three characters slash, star, slash close
\* nothing), and is then one comment token from the opening through that
\* slash; if the input ends first, Lex returns _ERROR with "block comment
\* never terminates, unexpected EOF" and makes no token.
C29_BlockCommentClose ==
    [][(FirstLex /\ IsBlockCommentInput(data))
          => LET e == BlockCommentClose(data, 3)
             IN  IF e = 0
                 THEN /\ LiteralRejected(
                            "block comment never terminates, unexpected EOF")
                      /\ tokens' = << >>
                      /\ comments' = << >>
                 ELSE /\ Len(tokens') >= 1
                      /\ tokens'[1] = [offset |-> 0, length |-> e]]_vars

\* The five characters slash, star, slash, star, slash were lexed as one
\* comment: the first slash behind the opening did not close it.
C29_Witness ==
    /\ data = <<CH_SLASH, CH_STAR, CH_SLASH, CH_STAR, CH_SLASH>>
    /\ ret.kind = "EOF"
    /\ tokens[1] = [offset |-> 0, length |-> 5]

-----------------------------------------------------------------------------
(* The position of a diagnostic.                                           *)

\* The byte at offset p lies in a comment that the step has passed.
InPassedComment(p) ==
    \E i \in (Len(tokens) + 1)..Len(tokens') :
        tokens'[i].offset <= p /\ p < tokens'[i].offset + tokens'[i].length

\* The byte at offset p is white space or lies in such a comment.
Skipped(p) == data[p + 1] \in Whitespace \/ InPassedComment(p)

\* C30: a diagnostic is at the offset at which the offending token begins:
\* the one Lex reports is at the first offset from the cursor on that is
\* neither white space nor in a comment the call has passed, which is the
\* offset recorded at the top of the loop and not behind the cursor's new
\* place; the one Error reports is at the start of the last token looked at;
\* and the recorded offset never decreases.
C30_DiagnosticAtTokenStart ==
    [][/\ Len(diags') > Len(diags)
          => LET d == diags'[Len(diags')].offset
             IN  /\ Len(diags') = Len(diags) + 1
                 /\ d = prevOffset'
                 /\ LexStep
                      => /\ pos <= d /\ d <= pos'
                         /\ \A p \in pos..(d - 1) : Skipped(p)
                         /\ d < Len(data) => ~Skipped(d)
                 /\ ~LexStep => d = mark
       /\ prevOffset' >= prevOffset]_vars

\* Behind a line comment and its newline, the string that the end of the
\* input cuts short was reported at its quote, offset 3, with the cursor at 4.
C30_Witness ==
    /\ data = <<CH_SLASH, CH_SLASH, CH_LF, CH_DQUOTE>>
    /\ diags = <<[offset |-> 3, msg |-> "unexpected EOF"]>>
    /\ ret.kind = "_ERROR"
    /\ pos = 4

=============================================================================
